---- MODULE Spec2Model ----
(***************************************************************************)
(* Verification model of the AI career agent Lambda handlers.              *)
(*                                                                         *)
(* Strings that the code searches with `in` are sequences of words; lower()*)
(* maps each word through LowerWord.  A Python dict is a function whose    *)
(* domain is the set of keys that are present, so d.get(k, default) and a  *)
(* KeyError are both expressible.  A reply of the model endpoint is a      *)
(* record (Reply) that says whether the call failed, what JSON value the   *)
(* text parses to, or that it is not JSON.                                 *)
(***************************************************************************)
EXTENDS Integers, Sequences, FiniteSets, TLC

VARIABLES
    handler,        \* which lambda_handler serves the request
    pc,             \* position inside the handler
    event,          \* the event passed to lambda_handler
    failed,         \* steps whose external call failed during this request
    user_profile,   \* local of the handler: [bound, v]
    body,           \* local of the handler: [bound, kind, d]
    key,            \* local of the S3 loops: [bound, v]
    job_results,    \* list returned by the job board search
    input_jobs,     \* the caller's list as it was when the matching call began
    matched_jobs,   \* list returned by the matching step
    analysis,       \* results of the analysis steps, by step name
    modelCalls,     \* invoke_model calls made, by step name
    results,        \* per-record results of a batch handler
    position,       \* records of the batch the loop has gone through
    putLog,         \* keys of the storage writes that succeeded, in order
    now,            \* wall clock, in ticks
    hashSeed,       \* hash seed of the running Python process
    scoreLog,       \* what the scoring heuristics returned, by invocation
    response,       \* what lambda_handler hands back
    session_state,  \* st.session_state of one browser session
    page,           \* what the last script run rendered: [shown, message]
    issued          \* sign-ins that Cognito has answered with tokens

vars == <<handler, pc, event, failed, user_profile, body, key, job_results,
          input_jobs, matched_jobs, analysis, modelCalls, results, position, putLog,
          now, hashSeed, scoreLog, response, session_state, page, issued>>

----------------------------------------------------------------------------
(* Bounds of the model                                                     *)

MaxTick == 3          \* the clock stops advancing after this tick
MaxRecords == 2       \* longest Records list of an event
MaxSeed == 1          \* hash seeds 0..MaxSeed
MaxCalls == 2         \* scoring invocations logged per behaviour
SortInputLen == 17    \* length of the scored lists given to the sort
MaxJobs == 3          \* longest list given to remove_duplicate_jobs
MaxSignIns == 3       \* sign-ins answered with tokens in one session

(* Program constants                                                       *)

TicksPerSecond == 2   \* strftime('%H%M%S') drops the sub-second part
JobsPerBoard == 8
TopMatches == 15
MockListings == 25
TopBasicMatches == 10
SecondsPerDay == 86400
SummaryChars == 500

----------------------------------------------------------------------------
(* Generic helpers                                                         *)

Min(a, b) == IF a <= b THEN a ELSE b
Max(a, b) == IF a >= b THEN a ELSE b
Abs(a) == IF a < 0 THEN -a ELSE a

Range(s) == {s[i] : i \in 1..Len(s)}

EmptyDict == [k \in {} |-> 0]

Get(d, k, default) == IF k \in DOMAIN d THEN d[k] ELSE default

Update(d, e) ==
    [k \in (DOMAIN d) \cup (DOMAIN e) |-> IF k \in DOMAIN e THEN e[k] ELSE d[k]]

Take(s, n) == SubSeq(s, 1, Min(Len(s), n))

LowerWord(w) ==
    CASE w = "Entry" -> "entry"
      [] w = "Mid" -> "mid"
      [] w = "Senior" -> "senior"
      [] w = "Level" -> "level"
      [] w = "Software" -> "software"
      [] w = "Engineer" -> "engineer"
      [] w = "Engineering" -> "engineering"
      [] w = "Frontend" -> "frontend"
      [] w = "Backend" -> "backend"
      [] w = "Developer" -> "developer"
      [] w = "Full" -> "full"
      [] w = "Stack" -> "stack"
      [] w = "Data" -> "data"
      [] w = "Scientist" -> "scientist"
      [] w = "Machine" -> "machine"
      [] w = "Learning" -> "learning"
      [] w = "DevOps" -> "devops"
      [] w = "Remote" -> "remote"
      [] w = "Austin" -> "austin"
      [] w = "Python" -> "python"
      [] w = "AWS" -> "aws"
      [] w = "Docker" -> "docker"
      [] OTHER -> w

Lower(s) == [i \in 1..Len(s) |-> LowerWord(s[i])]

\* Python's `a in b` on strings
Contains(b, a) ==
    \E i \in 0..(Len(b) - Len(a)) : SubSeq(b, i + 1, i + Len(a)) = a

----------------------------------------------------------------------------
(* enhanced_job_search_agent.py: the mock job boards                       *)

Boards == <<"indeed", "linkedin", "glassdoor", "dice", "monster">>

\* rating is kept in tenths (4.2 is 42)
Company(name, size, industry, rating) ==
    [name |-> name, size |-> size, industry |-> industry, rating |-> rating]

Companies ==
    << Company(<<"TechCorp">>, "Large", <<"Technology">>, 42),
       Company(<<"InnovateLab">>, "Medium", <<"AI/ML">>, 45),
       Company(<<"StartupXYZ">>, "Small", <<"Fintech">>, 40),
       Company(<<"DataDriven", "Inc">>, "Medium", <<"Analytics">>, 43),
       Company(<<"CloudFirst">>, "Large", <<"Cloud", "Services">>, 41),
       Company(<<"AI", "Solutions">>, "Medium", <<"Artificial", "Intelligence">>, 44),
       Company(<<"DevOps", "Masters">>, "Small", <<"DevOps">>, 42),
       Company(<<"ScaleUp", "Co">>, "Medium", <<"SaaS">>, 40),
       Company(<<"NextGen", "Tech">>, "Large", <<"Enterprise", "Software">>, 43),
       Company(<<"FutureSoft">>, "Small", <<"Mobile", "Apps">>, 41) >>

JobTitles ==
    << <<"Software", "Engineer">>, <<"Senior", "Software", "Engineer">>,
       <<"Frontend", "Developer">>, <<"Backend", "Engineer">>,
       <<"Full", "Stack", "Developer">>, <<"Data", "Scientist">>,
       <<"Machine", "Learning", "Engineer">>, <<"DevOps", "Engineer">>,
       <<"Product", "Manager">>, <<"Cloud", "Architect">>,
       <<"Security", "Engineer">>, <<"Mobile", "Developer">> >>

TechStacks ==
    << <<"Python", "Django", "PostgreSQL", "AWS">>,
       <<"JavaScript", "React", "Node.js", "MongoDB">>,
       <<"Java", "Spring Boot", "MySQL", "Docker">>,
       <<"Python", "FastAPI", "Redis", "Kubernetes">>,
       <<"TypeScript", "Angular", "GraphQL", "Azure">>,
       <<"Go", "Microservices", "gRPC", "GCP">>,
       <<"C#", ".NET Core", "SQL Server", "Azure">>,
       <<"Rust", "WebAssembly", "PostgreSQL", "Docker">> >>

EntryLevel == <<"Entry", "Level">>
MidLevel == <<"Mid", "Level">>
SeniorLevel == <<"Senior", "Level">>

\* benefits as the words the code later searches for
generate_job_benefits(company_size) ==
    IF company_size = "Large"
    THEN <<"salary", "insurance", "401k", "pto", "stock", "development", "gym", "leave">>
    ELSE IF company_size = "Medium"
    THEN <<"salary", "insurance", "401k", "pto", "equity", "development", "remote", "retreats">>
    ELSE <<"salary", "insurance", "401k", "pto", "equity", "impact", "flexible", "mentorship">>

BaseSalary(experience_level) ==
    IF experience_level = EntryLevel THEN 75000
    ELSE IF experience_level = MidLevel THEN 95000 ELSE 130000

\* the i-th job (i from 0) of one board
MockJob(board, i, location, experience_level) ==
    LET company == Companies[(i % Len(Companies)) + 1]
        tech_stack == TechStacks[(i % Len(TechStacks)) + 1]
        base_salary == BaseSalary(experience_level)
        salary_min_calc == base_salary + (i * 2000) - 15000
        salary_max_calc == base_salary + (i * 3000) + 15000
    IN  [ id |-> <<board, i + 1>>,
          title |-> experience_level \o JobTitles[(i % Len(JobTitles)) + 1],
          company |-> company.name,
          company_details |-> company,
          location |-> IF i % 4 # 0 THEN location ELSE <<"Remote">>,
          salary_min |-> Max(salary_min_calc, 50000),
          salary_max |-> Min(salary_max_calc, 200000),
          benefits |-> generate_job_benefits(company.size),
          tech_stack |-> tech_stack,
          posted_days_ago |-> i % 14,
          remote_friendly |-> (i % 3 = 0),
          source |-> board,
          job_type |-> IF i % 5 # 0 THEN "Full-time" ELSE "Contract",
          visa_sponsorship |-> (i % 6 = 0),
          equity_offered |-> (company.size \in {"Small", "Medium"} /\ i % 4 = 0) ]

generate_enhanced_mock_jobs(board, location, experience_level) ==
    [i \in 1..JobsPerBoard |-> MockJob(board, i - 1, location, experience_level)]

RECURSIVE ConcatBoards(_, _, _)
ConcatBoards(n, location, experience_level) ==
    IF n = 0 THEN <<>>
    ELSE ConcatBoards(n - 1, location, experience_level)
         \o generate_enhanced_mock_jobs(Boards[n], location, experience_level)

\* a key that keeps the case
JobKey_CaseSensitive(job) == <<job.title, job.company>>

JobKey(job) == <<Lower(job.title), Lower(job.company)>>

RECURSIVE DedupFrom(_, _, _)
DedupFrom(jobs, i, seen) ==
    IF i > Len(jobs) THEN <<>>
    ELSE IF JobKey(jobs[i]) \in seen THEN DedupFrom(jobs, i + 1, seen)
    ELSE <<jobs[i]>> \o DedupFrom(jobs, i + 1, seen \cup {JobKey(jobs[i])})

remove_duplicate_jobs(jobs) == DedupFrom(jobs, 1, {})

calculate_urgency_score(days_posted) ==
    IF days_posted <= 3 THEN 90
    ELSE IF days_posted <= 7 THEN 70
    ELSE IF days_posted <= 14 THEN 50 ELSE 30

calculate_competitiveness_score_Uncapped(job) ==
    50 + (IF job.salary_max > 120000 THEN 20
          ELSE IF job.salary_max > 90000 THEN 10 ELSE 0)
       + (IF job.remote_friendly THEN 15 ELSE 0)
       + (IF job.equity_offered THEN 10 ELSE 0)
       + (IF Get(job.company_details, "rating", 35) >= 40 THEN 10 ELSE 0)

calculate_competitiveness_score(job) ==
    LET s1 == IF job.salary_max > 120000 THEN 20
              ELSE IF job.salary_max > 90000 THEN 10 ELSE 0
        s2 == IF job.remote_friendly THEN 15 ELSE 0
        s3 == IF job.equity_offered THEN 10 ELSE 0
        s4 == IF Get(job.company_details, "rating", 35) >= 40 THEN 10 ELSE 0
    IN  Min(100, 50 + s1 + s2 + s3 + s4)

\* the fields enhance_job_data writes into one job dictionary
EnhancedFields(job) ==
    [ salary_midpoint |-> (job.salary_min + job.salary_max) \div 2,
      days_since_posted |-> job.posted_days_ago,
      urgency_score |-> calculate_urgency_score(job.posted_days_ago),
      competitiveness_score |-> calculate_competitiveness_score(job) ]

\* the dictionaries are updated in place and the same list is returned
enhance_job_data(jobs) ==
    [i \in 1..Len(jobs) |-> Update(jobs[i], EnhancedFields(jobs[i]))]

search_multiple_job_boards_enhanced(profile) ==
    LET location == Get(profile, "location", <<"Remote">>)
        experience_level == Get(profile, "experience_level", EntryLevel)
        all_jobs == ConcatBoards(Len(Boards), location, experience_level)
    IN  enhance_job_data(remove_duplicate_jobs(all_jobs))

----------------------------------------------------------------------------
(* Values shared by the analysis steps                                     *)

\* a JSON number or a JSON string in a field that the code formats as money
IntVal(n) == [isNum |-> TRUE, n |-> n]
TextVal == [isNum |-> FALSE, n |-> 0]

\* one token of a reply text: a word or a run of digits
W(w) == [t |-> "word", w |-> w, n |-> 0]
N(n) == [t |-> "num", w |-> "", n |-> n]

\* what one invoke_model call gives: kind "fail" is a call that raised (or an
\* envelope without content); "object", "array", "string", "number" say what
\* json.loads makes of the reply text; "text" is a reply that is not JSON
Reply(kind, scoreKind, scoreVal, text) ==
    [kind |-> kind, scoreKind |-> scoreKind, scoreVal |-> scoreVal, text |-> text]

NoReply == Reply("none", "absent", 0, <<>>)

\* outcome of a call that may raise
Return(v) == [raised |-> FALSE, val |-> v]
Raise == [raised |-> TRUE, val |-> EmptyDict]

\* result of an analysis step: its Python type, the keys when it is a dict,
\* the part copied from the reply text, the number it carries
Result(type, keys, text, num) ==
    [type |-> type, keys |-> keys, text |-> text, num |-> num]

NoResult == Result("none", {}, <<>>, 0)

\* the first `score: <digits>` of a text, for re.search(r'"?score"?\s*:\s*(\d+)')
RECURSIVE ScoreMatch(_, _)
ScoreMatch(text, i) ==
    IF i + 2 > Len(text) THEN -1
    ELSE IF text[i].t = "word" /\ text[i].w = "score"
            /\ text[i + 1].t = "word" /\ text[i + 1].w = ":"
            /\ text[i + 2].t = "num"
         THEN text[i + 2].n
         ELSE ScoreMatch(text, i + 1)

\* the first run of digits of a text, for re.search(r'\d+')
RECURSIVE FirstDigits(_, _)
FirstDigits(text, i) ==
    IF i > Len(text) THEN -1
    ELSE IF text[i].t = "num" THEN text[i].n ELSE FirstDigits(text, i + 1)

\* the text the endpoint sent, for the kinds that json.loads accepts
ReplyText(reply) ==
    IF reply.kind = "text" THEN reply.text
    ELSE IF reply.kind = "object" /\ reply.scoreKind = "int"
         THEN <<W("{"), W("score"), W(":")>>
              \o (IF reply.scoreVal < 0 THEN <<W("-")>> ELSE <<>>)
              \o <<N(Abs(reply.scoreVal)), W("}")>>
    ELSE IF reply.kind = "object" THEN <<W("{"), W("}")>>
    ELSE IF reply.kind = "number" THEN <<N(Abs(reply.scoreVal))>>
    ELSE IF reply.kind = "array" THEN <<W("["), W("]")>>
    ELSE <<W("quoted")>>

----------------------------------------------------------------------------
(* enhanced_job_search_agent.py: matching                                  *)

SalaryOf(profile) == Get(profile, "salary_expectation", IntVal(75000))

\* the summary formats the salary with ':,' and joins the skills
create_detailed_profile_summary(profile) ==
    IF SalaryOf(profile).isNum THEN Return(EmptyDict) ELSE Raise

MatchAnalysis(score, origin) == [score |-> score, origin |-> origin]

parse_ai_response_fallback(response_text) ==
    LET found == ScoreMatch(response_text, 1)
        score == IF found >= 0 THEN found ELSE 50
    IN  MatchAnalysis(Max(0, Min(100, score)), "fallback_parse")

\* The prompt f-string of calculate_enhanced_ai_match_score holds the JSON
\* template in single braces: Python reads {"score": <0-100 integer>, ...} as a
\* replacement field with a format spec, and format() raises ValueError.
EnhancedMatchPromptFormats == FALSE

\* the try block of calculate_enhanced_ai_match_score, for one reply
EnhancedScoreOfReply(reply) ==
    IF reply.kind = "text" THEN parse_ai_response_fallback(reply.text)
    ELSE IF reply.kind = "object" /\ reply.scoreKind = "absent"
         THEN MatchAnalysis(Max(0, Min(100, 50)), "ai")
    ELSE IF reply.kind = "object" /\ reply.scoreKind = "int"
         THEN MatchAnalysis(Max(0, Min(100, reply.scoreVal)), "ai")
    ELSE MatchAnalysis(50, "unavailable")

\* [raised, val, calls]: calls counts the invoke_model calls made
calculate_enhanced_ai_match_score(job, reply) ==
    IF EnhancedMatchPromptFormats
    THEN [raised |-> FALSE, val |-> EnhancedScoreOfReply(reply), calls |-> 1]
    ELSE [raised |-> TRUE, val |-> MatchAnalysis(0, "none"), calls |-> 0]

analyze_salary_fit(job, profile) ==
    LET user_expectation == SalaryOf(profile).n
        job_min == job.salary_min
        job_max == job.salary_max
    IN  [ fit_level |->
            IF user_expectation <= job_max /\ user_expectation >= job_min
            THEN "Excellent"
            ELSE IF user_expectation < job_min THEN "Above Expectations"
            ELSE IF 2 * user_expectation <= job_min + job_max THEN "Good"
            ELSE "Below Expectations",
          negotiation_potential |->
            IF Get(job, "equity_offered", FALSE) THEN "High" ELSE "Medium" ]

assess_work_style_fit(user_style, job) ==
    IF user_style = "Remote"
    THEN job.remote_friendly \/ job.location = <<"Remote">>
    ELSE IF user_style = "On-site" THEN job.location # <<"Remote">>
    ELSE TRUE

analyze_culture_fit(job, profile) ==
    LET company_size == job.company_details.size
        user_pref == Get(profile, "company_size_pref", "Any")
        work_style == Get(profile, "work_style", "Hybrid")
        user_industry == Get(profile, "industry_interest", <<"Technology">>)
        b1 == IF user_pref = "Any" \/ user_pref = company_size THEN 15 ELSE 0
        b2 == IF work_style = "Remote" /\ job.remote_friendly THEN 10
              ELSE IF work_style = "Hybrid"
                      /\ (job.location # <<"Remote">> \/ job.remote_friendly)
                   THEN 5 ELSE 0
        aligned == Contains(Lower(job.company_details.industry), Lower(user_industry))
        b3 == IF aligned THEN 5 ELSE 0
    IN  [ score |-> Min(100, 70 + b1 + b2 + b3),
          company_size_fit |-> (company_size = user_pref \/ user_pref = "Any"),
          work_style_fit |-> assess_work_style_fit(work_style, job),
          industry_alignment |-> aligned ]

analyze_career_progression(job, profile) ==
    LET current_level == Get(profile, "experience_level", EntryLevel)
        company_size == job.company_details.size
        senior == Contains(job.title, <<"Senior">>)
                  /\ current_level \in {EntryLevel, MidLevel}
        lead == Contains(job.title, <<"Lead">>) \/ Contains(job.title, <<"Principal">>)
        p1 == IF senior THEN 20 ELSE IF lead THEN 25 ELSE 0
        p2 == IF company_size = "Large" THEN 10
              ELSE IF company_size = "Medium" THEN 15 ELSE 20
    IN  [ score |-> Min(100, 60 + p1 + p2),
          progression_type |->
            IF senior THEN "Advancement Opportunity"
            ELSE IF lead THEN "Leadership Track" ELSE "Skill Development",
          mentorship_available |-> (company_size \in {"Medium", "Large"}),
          learning_budget |-> ("development" \in Range(job.benefits)) ]

LowerSet(words) == {LowerWord(words[i]) : i \in 1..Len(words)}

EnhancedBasicScoreSum(job, profile) ==
    LET job_domain == Lower(Get(profile, "job_domain", <<>>))
        user_salary == SalaryOf(profile).n
        user_location == Lower(Get(profile, "location", <<>>))
        experience_level == Lower(Get(profile, "experience_level", <<>>))
        skill_overlap == Cardinality(LowerSet(Get(profile, "skills", <<>>))
                                     \cap LowerSet(Get(job, "tech_stack", <<>>)))
        s1 == IF Contains(Lower(job.title), job_domain) THEN 30 ELSE 0
        s2 == IF job.salary_min <= user_salary /\ user_salary <= job.salary_max
              THEN 25
              ELSE IF Abs(job.salary_min - user_salary) < 15000 THEN 15 ELSE 0
        s3 == IF Contains(Lower(job.location), user_location)
                 \/ Get(job, "remote_friendly", FALSE)
              THEN 20 ELSE 0
        s4 == IF Contains(Lower(job.title), experience_level) THEN 15 ELSE 0
        s5 == IF skill_overlap > 0 THEN Min(10, skill_overlap * 3) ELSE 0
    IN  s1 + s2 + s3 + s4 + s5

calculate_enhanced_basic_match_score(job, profile) ==
    [ match_score |-> Min(100, EnhancedBasicScoreSum(job, profile)),
      match_reasons |-> "basic",
      skill_gaps |-> "manual",
      growth_potential |-> "basic",
      ai_recommendations |-> "basic" ]

\* the fields the try branch of the matching loop writes into the job
AiMatchFields(job, profile, match_analysis) ==
    [ match_score |-> match_analysis.score,
      match_reasons |-> match_analysis.origin,
      skill_gaps |-> match_analysis.origin,
      growth_potential |-> match_analysis.origin,
      ai_recommendations |-> match_analysis.origin,
      salary_analysis |-> analyze_salary_fit(job, profile),
      culture_fit |-> analyze_culture_fit(job, profile),
      career_progression |-> analyze_career_progression(job, profile) ]

\* one pass of the loop body: the job dictionary after job.update(...)
MatchOneEnhanced(job, profile, reply) ==
    LET r == calculate_enhanced_ai_match_score(job, reply)
    IN  IF r.raised
        THEN Update(job, calculate_enhanced_basic_match_score(job, profile))
        ELSE Update(job, AiMatchFields(job, profile, r.val))

\* a sort on the score alone
SortKeyGreater_ScoreOnly(a, b) == a.match_score > b.match_score

\* matched_jobs.sort(key=..., reverse=True): descending and stable
SortKeyGreater(a, b) ==
    LET ra == IF Get(a, "remote_friendly", FALSE) THEN 1 ELSE 0
        rb == IF Get(b, "remote_friendly", FALSE) THEN 1 ELSE 0
        sa == Get(a, "salary_max", 0)
        sb == Get(b, "salary_max", 0)
    IN  \/ a.match_score > b.match_score
        \/ a.match_score = b.match_score /\ sa > sb
        \/ a.match_score = b.match_score /\ sa = sb /\ ra > rb

RECURSIVE InsertSorted(_, _, _)
InsertSorted(sorted, x, i) ==
    IF i > Len(sorted) THEN Append(sorted, x)
    ELSE IF SortKeyGreater(x, sorted[i])
         THEN SubSeq(sorted, 1, i - 1) \o <<x>> \o SubSeq(sorted, i, Len(sorted))
         ELSE InsertSorted(sorted, x, i + 1)

RECURSIVE SortFrom(_, _, _)
SortFrom(jobs, i, acc) ==
    IF i > Len(jobs) THEN acc
    ELSE SortFrom(jobs, i + 1, InsertSorted(acc, jobs[i], 1))

SortMatched(jobs) == SortFrom(jobs, 1, <<>>)

\* replies[i] answers the call made for the i-th job, cyclically
ReplyFor(replies, i) == replies[((i - 1) % Len(replies)) + 1]

\* the caller's list sorted in place
JobsAfterMatching_SortedInPlace(jobs, profile, replies) ==
    SortMatched([i \in 1..Len(jobs) |->
                    MatchOneEnhanced(jobs[i], profile, ReplyFor(replies, i))])

\* the caller's list after the loop: same order, dictionaries updated in place
JobsAfterMatching(jobs, profile, replies) ==
    [i \in 1..Len(jobs) |-> MatchOneEnhanced(jobs[i], profile, ReplyFor(replies, i))]

EnhancedMatchCalls(jobs, replies) ==
    LET c[i \in 0..Len(jobs)] ==
            IF i = 0 THEN 0
            ELSE c[i - 1] + calculate_enhanced_ai_match_score(jobs[i], ReplyFor(replies, i)).calls
    IN  c[Len(jobs)]

ai_job_matching_enhanced(jobs, profile, replies) ==
    SortMatched(JobsAfterMatching(jobs, profile, replies))

----------------------------------------------------------------------------
(* Events, profiles and replies the behaviours draw from                   *)

NullEvent == [shape |-> "null", d |-> EmptyDict]
DictEvent(d) == [shape |-> "dict", d |-> d]

ProfileFull ==
    [ user_id |-> "u1", job_domain |-> <<"Software", "Engineer">>,
      experience_level |-> EntryLevel, location |-> <<"Austin">>,
      salary_expectation |-> IntVal(80000), skills |-> <<"Python", "AWS">> ]

ProfileSenior ==
    [ user_id |-> "u2", job_domain |-> <<"Data", "Scientist">>,
      experience_level |-> SeniorLevel, location |-> <<"Remote">>,
      salary_expectation |-> IntVal(150000), work_style |-> "Remote",
      company_size_pref |-> "Small" ]

ProfileNoId == [ job_domain |-> <<"Nurse">>, experience_level |-> MidLevel ]

ProfileTextSalary == [ user_id |-> "u1", salary_expectation |-> TextVal ]

Profiles == {EmptyDict, ProfileFull, ProfileSenior, ProfileNoId, ProfileTextSalary}

NumericProfiles == {p \in Profiles : SalaryOf(p).isNum}

JobSearchEvents ==
    {NullEvent, DictEvent(EmptyDict)}
    \cup {DictEvent([user_profile |-> p]) : p \in Profiles}

TextPlain == <<W("Strong"), W("match")>>
TextScore == <<W("score"), W(":"), N(85)>>
TextHigh == <<W("The"), W("score"), W(":"), N(150), W("of"), N(20)>>

Replies ==
    { Reply("fail", "absent", 0, <<>>),
      Reply("object", "absent", 0, <<>>),
      Reply("object", "int", 85, <<>>),
      Reply("object", "int", 150, <<>>),
      Reply("object", "int", -5, <<>>),
      Reply("object", "str", 0, <<>>),
      Reply("array", "absent", 0, <<>>),
      Reply("string", "absent", 0, <<>>),
      Reply("number", "absent", 7, <<>>),
      Reply("text", "absent", 0, TextPlain),
      Reply("text", "absent", 0, TextScore),
      Reply("text", "absent", 0, TextHigh) }

\* one reply of each kind
ReplyKinds ==
    { Reply("fail", "absent", 0, <<>>),
      Reply("object", "absent", 0, <<>>),
      Reply("object", "int", 85, <<>>),
      Reply("array", "absent", 0, <<>>),
      Reply("string", "absent", 0, <<>>),
      Reply("number", "absent", 7, <<>>),
      Reply("text", "absent", 0, TextPlain),
      Reply("text", "absent", 0, TextScore) }

\* the replies given to the calls of one matching loop, used cyclically
ReplyPatterns ==
    {<<r>> : r \in Replies}
    \cup {<<Reply("object", "int", 85, <<>>), r>> : r \in Replies}

----------------------------------------------------------------------------
(* The clock and the keys built from it                                    *)

\* strftime('%Y%m%d_%H%M%S'): the time to the second
Second(t) == t \div TicksPerSecond

\* strftime("%Y-%m-%d"): the time to the day
Day(t) == Second(t) \div SecondsPerDay

----------------------------------------------------------------------------
(* Responses                                                               *)

Resp(statusCode, keys, count) ==
    [kind |-> "returned", statusCode |-> statusCode, keys |-> keys,
     count |-> count, exc |-> ""]

NoResponse == [kind |-> "pending", statusCode |-> 0, keys |-> {}, count |-> 0, exc |-> ""]
ReturnsNone == [kind |-> "none", statusCode |-> 0, keys |-> {}, count |-> 0, exc |-> ""]
Raises(exc) == [kind |-> "raised", statusCode |-> 0, keys |-> {}, count |-> 0, exc |-> exc]

Bound(v) == [bound |-> TRUE, v |-> v]
NotBound == [bound |-> FALSE, v |-> EmptyDict]

BoundBody(kind, d) == [bound |-> TRUE, kind |-> kind, d |-> d]
NoBody == [bound |-> FALSE, kind |-> "none", d |-> EmptyDict]

\* the primary key of one storage write: the table or bucket, the kind of
\* record, the clock reading the key embeds, the user the key embeds
PutKey(table, kind, sec, user) == [table |-> table, kind |-> kind, sec |-> sec, user |-> user]

BatchResult(file, status) == [file |-> file, status |-> status]

\* nothing rendered yet
NoPage == [shown |-> "none", message |-> ""]

StepNames == {"match", "market_analysis", "resume_analysis", "improvements",
              "optimize", "cover_letter", "ats", "insights", "recommendations",
              "market", "status"}

----------------------------------------------------------------------------
(* enhanced_job_search_agent.py: get_market_analysis and lambda_handler    *)

MarketFallbackKeys == {"market_summary", "analysis_date", "note"}

\* a fallback whose keys follow what the text holds
get_market_analysis_TextKeys(profile, reply) ==
    IF reply.kind = "fail" THEN Result("dict", MarketFallbackKeys, <<>>, 0)
    ELSE IF reply.kind = "text"
         THEN Result("dict",
                     IF ScoreMatch(reply.text, 1) >= 0
                     THEN MarketFallbackKeys \cup {"score"} ELSE MarketFallbackKeys,
                     Take(reply.text, SummaryChars) \o <<W("...")>>, 0)
    ELSE IF reply.kind = "object"
         THEN Result("dict", IF reply.scoreKind = "absent" THEN {} ELSE {"score"},
                     <<>>, reply.scoreVal)
    ELSE IF reply.kind = "array" THEN Result("list", {}, <<>>, 0)
    ELSE IF reply.kind = "string" THEN Result("str", {}, <<>>, 0)
    ELSE Result("num", {}, <<>>, reply.scoreVal)

get_market_analysis(profile, reply) ==
    IF reply.kind = "fail" THEN Result("dict", MarketFallbackKeys, <<>>, 0)
    ELSE IF reply.kind = "text"
         THEN Result("dict", MarketFallbackKeys,
                     Take(reply.text, SummaryChars) \o <<W("...")>>, 0)
    ELSE IF reply.kind = "object"
         THEN Result("dict", IF reply.scoreKind = "absent" THEN {} ELSE {"score"},
                     <<>>, reply.scoreVal)
    ELSE IF reply.kind = "array" THEN Result("list", {}, <<>>, 0)
    ELSE IF reply.kind = "string" THEN Result("str", {}, <<>>, 0)
    ELSE Result("num", {}, <<>>, reply.scoreVal)

JobSearchBodyKeys ==
    {"matched_jobs", "total_found", "ai_insights", "market_analysis", "search_metadata"}

\* the error body without the error id
ErrorBodyKeys_NoId(extra) == {"error"} \cup extra

ErrorBodyKeys(extra) == {"error", "error_id"} \cup extra

UnchangedJobState == UNCHANGED <<job_results, input_jobs, matched_jobs>>
UnchangedBatch == UNCHANGED <<results, key, position>>
UnchangedProcess == UNCHANGED <<handler, event, hashSeed, scoreLog, session_state, page, issued>>

\* boto3.client(...) / boto3.resource(...) / get_opensearch_client()
EJS_InitClients ==
    /\ handler = "ejs" /\ pc = "start"
    /\ \E ok \in BOOLEAN :
        /\ pc' = IF ok THEN "extract" ELSE "except"
        /\ failed' = IF ok THEN failed ELSE failed \cup {"clients"}
    /\ UNCHANGED <<user_profile, body, analysis, modelCalls, putLog, now, response>>
    /\ UnchangedJobState /\ UnchangedBatch /\ UnchangedProcess

\* user_profile = event.get('user_profile', {}) ...
EJS_Extract ==
    /\ handler = "ejs" /\ pc = "extract"
    /\ IF event.shape = "dict"
       THEN /\ user_profile' = Bound(Get(event.d, "user_profile", EmptyDict))
            /\ pc' = "search"
       ELSE /\ pc' = "except"
            /\ UNCHANGED user_profile
    /\ UNCHANGED <<failed, body, analysis, modelCalls, putLog, now, response>>
    /\ UnchangedJobState /\ UnchangedBatch /\ UnchangedProcess

EJS_Search ==
    /\ handler = "ejs" /\ pc = "search"
    /\ job_results' = search_multiple_job_boards_enhanced(user_profile.v)
    /\ pc' = "match"
    /\ UNCHANGED <<failed, user_profile, body, analysis, modelCalls, putLog, now,
                   response, input_jobs, matched_jobs>>
    /\ UnchangedBatch /\ UnchangedProcess

\* matched_jobs = ai_job_matching_enhanced(bedrock_runtime, job_results, user_profile)
EJS_Match ==
    /\ handler = "ejs" /\ pc = "match"
    /\ input_jobs' = job_results
    /\ IF create_detailed_profile_summary(user_profile.v).raised
       THEN /\ pc' = "except"
            /\ UNCHANGED <<job_results, matched_jobs, modelCalls>>
       ELSE \E replies \in ReplyPatterns :
            /\ job_results' = JobsAfterMatching(job_results, user_profile.v, replies)
            /\ matched_jobs' = ai_job_matching_enhanced(job_results, user_profile.v, replies)
            /\ modelCalls' = [modelCalls EXCEPT
                                !["match"] = @ + EnhancedMatchCalls(job_results, replies)]
            /\ pc' = "index"
    /\ UNCHANGED <<failed, user_profile, body, analysis, putLog, now, response>>
    /\ UnchangedBatch /\ UnchangedProcess

\* index_jobs_in_opensearch catches every exception
EJS_Index ==
    /\ handler = "ejs" /\ pc = "index"
    /\ \E ok \in BOOLEAN : failed' = IF ok THEN failed ELSE failed \cup {"index"}
    /\ pc' = "store"
    /\ UNCHANGED <<user_profile, body, analysis, modelCalls, putLog, now, response>>
    /\ UnchangedJobState /\ UnchangedBatch /\ UnchangedProcess

\* a store step whose failure reaches the handler's except clause
EJS_Store_FailureRaises ==
    /\ handler = "ejs" /\ pc = "store"
    /\ \E ok \in BOOLEAN :
        IF ok /\ "user_id" \in DOMAIN user_profile.v
        THEN /\ putLog' = Append(putLog, PutKey("job_table", "search", Second(now),
                                                user_profile.v.user_id))
             /\ pc' = "notify"
             /\ UNCHANGED failed
        ELSE /\ failed' = failed \cup {"store"}
             /\ pc' = "except"
             /\ UNCHANGED putLog
    /\ UNCHANGED <<user_profile, body, analysis, modelCalls, now, response>>
    /\ UnchangedJobState /\ UnchangedBatch /\ UnchangedProcess

\* store_job_results_enhanced: user_profile['user_id'] is a KeyError without
\* the key, caught like a failed put_item
EJS_Store ==
    /\ handler = "ejs" /\ pc = "store"
    /\ \E ok \in BOOLEAN :
        IF ok /\ "user_id" \in DOMAIN user_profile.v
        THEN /\ putLog' = Append(putLog, PutKey("job_table", "search", Second(now),
                                                user_profile.v.user_id))
             /\ UNCHANGED failed
        ELSE /\ failed' = failed \cup {"store"}
             /\ UNCHANGED putLog
    /\ pc' = "notify"
    /\ UNCHANGED <<user_profile, body, analysis, modelCalls, now, response>>
    /\ UnchangedJobState /\ UnchangedBatch /\ UnchangedProcess

\* send_job_notifications catches every exception
EJS_Notify ==
    /\ handler = "ejs" /\ pc = "notify"
    /\ \E ok \in BOOLEAN : failed' = IF ok THEN failed ELSE failed \cup {"notify"}
    /\ pc' = "respond"
    /\ UNCHANGED <<user_profile, body, analysis, modelCalls, putLog, now, response>>
    /\ UnchangedJobState /\ UnchangedBatch /\ UnchangedProcess

\* the response dictionary, built with one call of get_market_analysis
EJS_Respond ==
    /\ handler = "ejs" /\ pc = "respond"
    /\ \E reply \in Replies :
        /\ analysis' = [analysis EXCEPT
                          !["market_analysis"] = get_market_analysis(user_profile.v, reply)]
        /\ modelCalls' = [modelCalls EXCEPT !["market_analysis"] = @ + 1]
    /\ response' = Resp(200, JobSearchBodyKeys, Len(Take(matched_jobs, TopMatches)))
    /\ pc' = "done"
    /\ UNCHANGED <<failed, user_profile, body, putLog, now>>
    /\ UnchangedJobState /\ UnchangedBatch /\ UnchangedProcess

\* except Exception: the handler reads user_profile and search_params
EJS_Except ==
    /\ handler = "ejs" /\ pc = "except"
    /\ response' = IF user_profile.bound
                   THEN Resp(500, ErrorBodyKeys({"support_message"}), 0)
                   ELSE Raises("UnboundLocalError")
    /\ pc' = "done"
    /\ UNCHANGED <<failed, user_profile, body, analysis, modelCalls, putLog, now>>
    /\ UnchangedJobState /\ UnchangedBatch /\ UnchangedProcess

EnhancedJobSearch ==
    \/ EJS_InitClients \/ EJS_Extract \/ EJS_Search \/ EJS_Match \/ EJS_Index
    \/ EJS_Store \/ EJS_Notify \/ EJS_Respond \/ EJS_Except

----------------------------------------------------------------------------
(* enhanced_market_intelligence.py: lambda_handler                         *)

\* the value under 'body' of an API event: null, text that is not JSON, or
\* text that parses to an array or to an object d
RawBody(kind, d) == [kind |-> kind, d |-> d]

EmptyObjectBody == RawBody("object", EmptyDict)

MarketEvents ==
    { NullEvent, DictEvent(EmptyDict),
      DictEvent([body |-> RawBody("null", EmptyDict)]),
      DictEvent([body |-> RawBody("badjson", EmptyDict)]),
      DictEvent([body |-> RawBody("array", EmptyDict)]),
      DictEvent([body |-> EmptyObjectBody]),
      DictEvent([body |-> RawBody("object",
                    [job_domain |-> <<"Data", "Science">>, location |-> <<"Remote">>])]) }

EMI_InitClients ==
    /\ handler = "emi" /\ pc = "start"
    /\ \E ok \in BOOLEAN :
        /\ pc' = IF ok THEN "extract" ELSE "except"
        /\ failed' = IF ok THEN failed ELSE failed \cup {"clients"}
    /\ UNCHANGED <<user_profile, body, analysis, modelCalls, putLog, now, response>>
    /\ UnchangedJobState /\ UnchangedBatch /\ UnchangedProcess

\* body = json.loads(event.get('body', '{}')); job_domain = body.get(...)
EMI_Extract ==
    /\ handler = "emi" /\ pc = "extract"
    /\ LET raw == Get(event.d, "body", EmptyObjectBody)
       IN  IF event.shape # "dict" \/ raw.kind \in {"null", "badjson"}
           THEN pc' = "except" /\ UNCHANGED body
           ELSE /\ body' = BoundBody(raw.kind, raw.d)
                /\ pc' = IF raw.kind = "object" THEN "gather" ELSE "except"
    /\ UNCHANGED <<failed, user_profile, analysis, modelCalls, putLog, now, response>>
    /\ UnchangedJobState /\ UnchangedBatch /\ UnchangedProcess

\* gather_comprehensive_market_data calls generate_growth_projections,
\* generate_geographic_insights, generate_industry_trends and
\* generate_remote_work_trends, which the module does not define: NameError
EMI_Gather ==
    /\ handler = "emi" /\ pc = "gather"
    /\ pc' = "except"
    /\ UNCHANGED <<failed, user_profile, body, analysis, modelCalls, putLog, now, response>>
    /\ UnchangedJobState /\ UnchangedBatch /\ UnchangedProcess

\* except Exception: reads body, job_domain, location, experience_level
EMI_Except ==
    /\ handler = "emi" /\ pc = "except"
    /\ response' = IF ~body.bound THEN Raises("UnboundLocalError")
                   ELSE IF body.kind # "object" THEN Raises("AttributeError")
                   ELSE Resp(500, ErrorBodyKeys({"fallback_data"}), 0)
    /\ pc' = "done"
    /\ UNCHANGED <<failed, user_profile, body, analysis, modelCalls, putLog, now>>
    /\ UnchangedJobState /\ UnchangedBatch /\ UnchangedProcess

EnhancedMarketIntelligence ==
    EMI_InitClients \/ EMI_Extract \/ EMI_Gather \/ EMI_Except

----------------------------------------------------------------------------
(* Batch records                                                           *)

\* an S3 object key: its name, its extension, the user id its path names
ObjectKey(name, ext, user) == [name |-> name, ext |-> ext, user |-> user]

S3Record(k) == [s3 |-> k]
DynamoRecord(eventName) == [dynamodb |-> "image", eventName |-> eventName]
SqsRecord(messageId, bodyOk) == [messageId |-> messageId, body |-> bodyOk]

KeyA == ObjectKey("a", "txt", "u1")
KeyB == ObjectKey("b", "pdf", "")

RecordPool ==
    { S3Record(KeyA), S3Record(KeyB), DynamoRecord("INSERT"), SqsRecord("m1", TRUE) }

RECURSIVE SeqsUpTo(_, _)
SeqsUpTo(S, n) ==
    IF n = 0 THEN {<<>>}
    ELSE LET shorter == SeqsUpTo(S, n - 1)
         IN  shorter \cup {Append(q, x) : q \in shorter, x \in S}

RecordLists == SeqsUpTo(RecordPool, MaxRecords)

\* Python's hash() of a string: fixed within a process, different between
\* processes unless PYTHONHASHSEED pins it
PyHash(code, seed) == code * 31 + seed * 7919 + 11

NameCode(name) == IF name = "a" THEN 1 ELSE IF name = "b" THEN 2 ELSE 3

----------------------------------------------------------------------------
(* enhanced_resume_optimizer.py                                            *)

\* the pattern of every analysis step of this module: a JSON object is
\* stamped and returned; item assignment on any other JSON value raises
\* TypeError, which the outer except turns into the fallback dictionary
StampedAnalysis(reply, fallbackKeys, stamps) ==
    IF reply.kind = "object"
    THEN Result("dict", (IF reply.scoreKind = "absent" THEN {} ELSE {"score"}) \cup stamps,
                <<>>, 0)
    ELSE Result("dict", fallbackKeys, <<>>, 0)

ResumeAnalysisKeys ==
    {"overall_score", "strengths", "weaknesses", "extracted_info", "ats_readiness",
     "content_analysis", "improvement_priority", "filename", "analysis_date", "note"}

analyze_resume_with_ai_enhanced(reply) ==
    StampedAnalysis(reply, ResumeAnalysisKeys, {"filename", "analysis_date"})

extract_user_id_from_filename(k, seed) ==
    IF k.user # "" THEN k.user
    ELSE "user_" \o ToString(PyHash(NameCode(k.name), seed) % 100000)

ResumeEvents ==
    {NullEvent, DictEvent(EmptyDict)}
    \cup {DictEvent([Records |-> r]) : r \in RecordLists}
    \cup {DictEvent([body |-> RawBody(k, EmptyDict)]) : k \in {"null", "badjson", "array"}}
    \cup {DictEvent([body |-> RawBody("object", [user_profile |-> p])]) :
            p \in {ProfileFull, ProfileNoId}}

ERO_InitClients ==
    /\ handler = "ero" /\ pc = "start"
    /\ \E ok \in BOOLEAN :
        /\ pc' = IF ok THEN "dispatch" ELSE "except"
        /\ failed' = IF ok THEN failed ELSE failed \cup {"clients"}
    /\ UNCHANGED <<user_profile, body, analysis, modelCalls, putLog, now, response>>
    /\ UnchangedJobState /\ UnchangedBatch /\ UnchangedProcess

\* if 'Records' in event: ... else: ...
ERO_Dispatch ==
    /\ handler = "ero" /\ pc = "dispatch"
    /\ pc' = IF event.shape # "dict" THEN "except"
             ELSE IF "Records" \in DOMAIN event.d THEN "s3_loop" ELSE "optimize"
    /\ UNCHANGED <<failed, user_profile, body, analysis, modelCalls, putLog, now, response>>
    /\ UnchangedJobState /\ UnchangedBatch /\ UnchangedProcess

\* one pass of the loop of process_s3_resume_upload
ERO_S3Record ==
    /\ handler = "ero" /\ pc = "s3_loop"
    /\ Len(results) < Len(event.d.Records)
    /\ LET record == event.d.Records[Len(results) + 1]
       IN  IF "s3" \notin DOMAIN record
           THEN \* KeyError inside the try; the except clause formats `key`
                /\ IF key.bound
                   THEN /\ results' = Append(results, BatchResult(key.v, "failed"))
                        /\ pc' = "s3_loop"
                   ELSE /\ pc' = "except"
                        /\ UNCHANGED results
                /\ UNCHANGED <<key, analysis, modelCalls, putLog, failed>>
           ELSE \E r1 \in ReplyKinds, r2 \in ReplyKinds, ok \in BOOLEAN :
                /\ key' = Bound(record.s3)
                /\ analysis' = [analysis EXCEPT
                      !["resume_analysis"] = analyze_resume_with_ai_enhanced(r1),
                      !["improvements"] =
                          StampedAnalysis(r2, {"immediate_fixes", "generation_date", "note"},
                                          {"generation_date"})]
                /\ modelCalls' = [modelCalls EXCEPT !["resume_analysis"] = @ + 1,
                                                    !["improvements"] = @ + 1]
                /\ IF ok
                   THEN /\ putLog' = Append(putLog,
                              PutKey("user_table", "resume_analysis", Second(now),
                                     extract_user_id_from_filename(record.s3, hashSeed)))
                        /\ UNCHANGED failed
                   ELSE /\ failed' = failed \cup {"store"}
                        /\ UNCHANGED putLog
                /\ results' = Append(results, BatchResult(record.s3, "processed"))
                /\ pc' = "s3_loop"
    /\ UNCHANGED <<user_profile, body, position, now, response>>
    /\ UnchangedJobState /\ UnchangedProcess

ERO_S3Return ==
    /\ handler = "ero" /\ pc = "s3_loop"
    /\ Len(results) = Len(event.d.Records)
    /\ response' = Resp(200, {"message", "results", "timestamp"}, Len(results))
    /\ pc' = "done"
    /\ UNCHANGED <<failed, user_profile, body, analysis, modelCalls, putLog, now>>
    /\ UnchangedJobState /\ UnchangedBatch /\ UnchangedProcess

\* optimize_resume_for_job up to the first model call
ERO_ParseBody ==
    /\ handler = "ero" /\ pc = "optimize"
    /\ LET raw == Get(event.d, "body", EmptyObjectBody)
       IN  IF raw.kind \in {"null", "badjson"}
           THEN pc' = "except" /\ UNCHANGED <<body, user_profile>>
           ELSE IF raw.kind # "object"
           THEN /\ body' = BoundBody(raw.kind, raw.d)
                /\ pc' = "except"
                /\ UNCHANGED user_profile
           ELSE /\ body' = BoundBody(raw.kind, raw.d)
                /\ user_profile' = Bound(Get(raw.d, "user_profile", EmptyDict))
                /\ pc' = "ai_optimize"
    /\ UNCHANGED <<failed, analysis, modelCalls, putLog, now, response>>
    /\ UnchangedJobState /\ UnchangedBatch /\ UnchangedProcess

\* optimize_resume_with_ai, generate_cover_letter, analyze_ats_compatibility,
\* generate_application_insights: one model call each
EroStep(at, step, fallbackKeys, stamps, next) ==
    /\ handler = "ero" /\ pc = at
    /\ \E reply \in ReplyKinds :
        analysis' = [analysis EXCEPT ![step] = StampedAnalysis(reply, fallbackKeys, stamps)]
    /\ modelCalls' = [modelCalls EXCEPT ![step] = @ + 1]
    /\ pc' = next
    /\ UNCHANGED <<failed, user_profile, body, putLog, now, response>>
    /\ UnchangedJobState /\ UnchangedBatch /\ UnchangedProcess

ERO_OptimizeResume ==
    EroStep("ai_optimize", "optimize",
            {"optimized_sections", "optimization_notes", "ats_optimization", "match_score",
             "optimization_date", "job_title", "company_name", "note"},
            {"optimization_date", "job_title", "company_name"}, "ai_cover")

ERO_CoverLetter ==
    EroStep("ai_cover", "cover_letter",
            {"cover_letter", "generation_date", "note"}, {"generation_date"}, "ai_ats")

ERO_Ats ==
    EroStep("ai_ats", "ats", {"ats_score", "analysis_date", "note"}, {"analysis_date"},
            "ai_insights")

ERO_Insights ==
    EroStep("ai_insights", "insights",
            {"application_strategy", "generation_date", "note"}, {"generation_date"},
            "store_optimization")

\* store_optimization_results and the 200 response
ERO_StoreAndReturn ==
    /\ handler = "ero" /\ pc = "store_optimization"
    /\ \E ok \in BOOLEAN :
        IF ok
        THEN /\ putLog' = Append(putLog,
                    PutKey("user_table", "optimization", Second(now),
                           Get(user_profile.v, "user_id", "None")))
             /\ UNCHANGED failed
        ELSE /\ failed' = failed \cup {"store"}
             /\ UNCHANGED putLog
    /\ response' = Resp(200, {"optimization_id", "optimized_resume", "cover_letter",
                              "ats_analysis", "application_insights", "timestamp"}, 0)
    /\ pc' = "done"
    /\ UNCHANGED <<user_profile, body, analysis, modelCalls, now>>
    /\ UnchangedJobState /\ UnchangedBatch /\ UnchangedProcess

\* except Exception: evaluates 'Records' in event again
ERO_Except ==
    /\ handler = "ero" /\ pc = "except"
    /\ response' = IF event.shape = "dict"
                   THEN Resp(500, ErrorBodyKeys({"support_message"}), 0)
                   ELSE Raises("TypeError")
    /\ pc' = "done"
    /\ UNCHANGED <<failed, user_profile, body, analysis, modelCalls, putLog, now>>
    /\ UnchangedJobState /\ UnchangedBatch /\ UnchangedProcess

EnhancedResumeOptimizer ==
    \/ ERO_InitClients \/ ERO_Dispatch \/ ERO_S3Record \/ ERO_S3Return
    \/ ERO_ParseBody \/ ERO_OptimizeResume \/ ERO_CoverLetter \/ ERO_Ats
    \/ ERO_Insights \/ ERO_StoreAndReturn \/ ERO_Except

----------------------------------------------------------------------------
(* enhanced_existing_function.py                                           *)

\* json.loads(ai_response) returned as it is; a bare except gives the
\* fallback for text that is not JSON; the outer except one for a failed call
LoadsOrFallback(reply, textKeys, errorType, errorKeys) ==
    IF reply.kind = "fail" THEN Result(errorType, errorKeys, <<>>, 0)
    ELSE IF reply.kind = "text" THEN Result(textKeys.type, textKeys.keys, reply.text, 0)
    ELSE IF reply.kind = "object"
         THEN Result("dict", IF reply.scoreKind = "absent" THEN {} ELSE {"score"}, <<>>, 0)
    ELSE IF reply.kind = "array" THEN Result("list", {}, <<>>, 0)
    ELSE IF reply.kind = "string" THEN Result("str", {}, <<>>, 0)
    ELSE Result("num", {}, <<>>, 0)

DictKeys(keys) == [type |-> "dict", keys |-> keys]
ListOf == [type |-> "list", keys |-> {}]

analyze_resume_with_ai(reply) ==
    LoadsOrFallback(reply, DictKeys({"analysis", "filename", "processed_at"}),
                    "dict", {"error", "filename", "processed_at"})

\* the fallback recommendations are a fixed list, whatever the text
generate_job_recommendations(reply) ==
    LET r == LoadsOrFallback(reply, ListOf, "list", {})
    IN  IF reply.kind = "text" THEN Result("list", {}, <<>>, 0) ELSE r

optimize_resume_with_ai(reply) ==
    LoadsOrFallback(reply, DictKeys({"optimization", "ats_score", "processed_at"}),
                    "dict", {"error"})

generate_market_intelligence(reply) ==
    LoadsOrFallback(reply, DictKeys({"market_analysis", "generated_at"}), "dict", {"error"})

ApiPaths == {"/job-search", "/resume-optimize", "/market-intelligence", "/status"}

ResumeRequest == [resume_text |-> "cv", job_description |-> "jd"]
ResumeRequestNoJob == [resume_text |-> "cv", job_description |-> ""]

ApiBodies ==
    { RawBody("null", EmptyDict), RawBody("badjson", EmptyDict),
      RawBody("array", EmptyDict), RawBody("object", ResumeRequest),
      RawBody("object", ResumeRequestNoJob), RawBody("object", EmptyDict) }

\* queryStringParameters is a dict or, for a request without a query, null
ApiEvents ==
    { DictEvent([httpMethod |-> m, path |-> p, body |-> b, queryStringParameters |-> q]) :
        m \in {"GET", "POST"}, p \in ApiPaths, b \in ApiBodies,
        q \in {RawBody("object", EmptyDict), RawBody("null", EmptyDict)} }

ExistingFunctionEvents ==
    {NullEvent, DictEvent(EmptyDict), DictEvent([source |-> "aws.events"]),
     DictEvent([source |-> "custom"]), DictEvent([httpMethod |-> "GET"])}
    \cup {DictEvent([Records |-> r]) : r \in RecordLists}
    \cup {e \in ApiEvents :
            /\ e.d.queryStringParameters.kind = "null" => e.d.path = "/market-intelligence"
            /\ e.d.body.kind \notin {"null", "object"} => e.d.httpMethod = "POST"}

\* the clients are created before the try
EEF_InitClients ==
    /\ handler = "eef" /\ pc = "start"
    /\ \E ok \in BOOLEAN :
        IF ok
        THEN pc' = "dispatch" /\ UNCHANGED <<failed, response>>
        ELSE /\ pc' = "done"
             /\ failed' = failed \cup {"clients"}
             /\ response' = Raises("ClientError")
    /\ UNCHANGED <<user_profile, body, analysis, modelCalls, putLog, now>>
    /\ UnchangedJobState /\ UnchangedBatch /\ UnchangedProcess

\* where the if/elif chain of lambda_handler sends the event; "none" is the
\* end of the function without a return
RouteOf(ev) ==
    IF ev.shape # "dict" THEN "except"
    ELSE IF "Records" \in DOMAIN ev.d
         THEN IF Len(ev.d.Records) = 0 THEN "except"
              ELSE IF "s3" \in DOMAIN ev.d.Records[1] THEN "s3_loop"
              ELSE IF "dynamodb" \in DOMAIN ev.d.Records[1] THEN "dynamodb"
              ELSE "none"
    ELSE IF "httpMethod" \in DOMAIN ev.d THEN "api"
    ELSE IF "source" \in DOMAIN ev.d /\ ev.d.source = "aws.events" THEN "scheduled"
    ELSE "sqs"

EEF_Dispatch ==
    /\ handler = "eef" /\ pc = "dispatch"
    /\ IF RouteOf(event) = "none"
       THEN pc' = "done" /\ response' = ReturnsNone
       ELSE pc' = RouteOf(event) /\ UNCHANGED response
    /\ UNCHANGED <<failed, user_profile, body, analysis, modelCalls, putLog, now>>
    /\ UnchangedJobState /\ UnchangedBatch /\ UnchangedProcess

\* one pass of the loop of handle_s3_trigger; record['s3'] is read before the try
EEF_S3Record ==
    /\ handler = "eef" /\ pc = "s3_loop"
    /\ Len(results) < Len(event.d.Records)
    /\ LET record == event.d.Records[Len(results) + 1]
       IN  IF "s3" \notin DOMAIN record
           THEN /\ pc' = "except"
                /\ UNCHANGED <<key, results, analysis, modelCalls, putLog, failed>>
           ELSE /\ key' = Bound(record.s3)
                /\ pc' = "s3_loop"
                /\ \/ \* s3.get_object fails
                      /\ results' = Append(results, BatchResult(record.s3, "error"))
                      /\ failed' = failed \cup {"get_object"}
                      /\ UNCHANGED <<analysis, modelCalls, putLog>>
                   \/ \E reply \in ReplyKinds, ok \in BOOLEAN :
                      /\ analysis' = [analysis EXCEPT
                            !["resume_analysis"] = analyze_resume_with_ai(reply)]
                      /\ modelCalls' = [modelCalls EXCEPT !["resume_analysis"] = @ + 1]
                      /\ IF ok
                         THEN /\ putLog' = Append(putLog,
                                    PutKey("data_table", "resume_analysis", Second(now), ""))
                              /\ UNCHANGED failed
                         ELSE /\ failed' = failed \cup {"store"}
                              /\ UNCHANGED putLog
                      /\ results' = Append(results, BatchResult(record.s3, "processed"))
    /\ UNCHANGED <<user_profile, body, position, now, response>>
    /\ UnchangedJobState /\ UnchangedProcess

EEF_S3Return ==
    /\ handler = "eef" /\ pc = "s3_loop"
    /\ Len(results) = Len(event.d.Records)
    /\ response' = Resp(200, {"message", "results", "timestamp"}, Len(results))
    /\ pc' = "done"
    /\ UNCHANGED <<failed, user_profile, body, analysis, modelCalls, putLog, now>>
    /\ UnchangedJobState /\ UnchangedBatch /\ UnchangedProcess

\* handle_dynamodb_trigger: record['eventName'] and record['dynamodb']
handle_dynamodb_trigger(records) ==
    IF \E i \in 1..Len(records) :
          "eventName" \notin DOMAIN records[i]
          \/ (records[i].eventName \in {"INSERT", "MODIFY"}
              /\ "dynamodb" \notin DOMAIN records[i])
    THEN Raise
    ELSE Return(Resp(200, {"message", "records_processed", "details"},
                     Cardinality({i \in 1..Len(records) :
                                    records[i].eventName \in {"INSERT", "MODIFY"}})))

EEF_Dynamodb ==
    /\ handler = "eef" /\ pc = "dynamodb"
    /\ LET r == handle_dynamodb_trigger(event.d.Records)
       IN  IF r.raised
           THEN pc' = "except" /\ UNCHANGED response
           ELSE pc' = "done" /\ response' = r.val
    /\ UNCHANGED <<failed, user_profile, body, analysis, modelCalls, putLog, now>>
    /\ UnchangedJobState /\ UnchangedBatch /\ UnchangedProcess

EEF_Scheduled ==
    /\ handler = "eef" /\ pc = "scheduled"
    /\ response' = Resp(200, {"message", "tasks", "timestamp"}, 0)
    /\ pc' = "done"
    /\ UNCHANGED <<failed, user_profile, body, analysis, modelCalls, putLog, now>>
    /\ UnchangedJobState /\ UnchangedBatch /\ UnchangedProcess

\* handle_sqs_message: json.loads(record['body']) for every record
handle_sqs_message(ev) ==
    IF "Records" \in DOMAIN ev.d
    THEN IF \E i \in 1..Len(ev.d.Records) :
               "body" \notin DOMAIN ev.d.Records[i]
               \/ "messageId" \notin DOMAIN ev.d.Records[i]
               \/ ~ev.d.Records[i].body
         THEN Raise
         ELSE Return(Resp(200, {"message", "processed_count"}, Len(ev.d.Records)))
    ELSE Return(Resp(200, {"message"}, 0))

EEF_Sqs ==
    /\ handler = "eef" /\ pc = "sqs"
    /\ LET r == handle_sqs_message(event)
       IN  IF r.raised
           THEN pc' = "except" /\ UNCHANGED response
           ELSE pc' = "done" /\ response' = r.val
    /\ UNCHANGED <<failed, user_profile, body, analysis, modelCalls, putLog, now>>
    /\ UnchangedJobState /\ UnchangedBatch /\ UnchangedProcess

\* a routing that looks at the path only for the job search
ApiRouteOf_AnyMethod(path, http_method) ==
    IF path = "/job-search" THEN "api_job_search"
    ELSE IF path = "/resume-optimize" /\ http_method = "POST" THEN "api_resume"
    ELSE IF path = "/market-intelligence" /\ http_method = "GET" THEN "api_market"
    ELSE "api_status"

\* where handle_api_request sends a request
ApiRouteOf(path, http_method) ==
    IF path = "/job-search" /\ http_method = "POST" THEN "api_job_search"
    ELSE IF path = "/resume-optimize" /\ http_method = "POST" THEN "api_resume"
    ELSE IF path = "/market-intelligence" /\ http_method = "GET" THEN "api_market"
    ELSE "api_status"

\* handle_api_request up to the routing: event['path'] and the body parse
EEF_Api ==
    /\ handler = "eef" /\ pc = "api"
    /\ LET raw == Get(event.d, "body", RawBody("null", EmptyDict))
       IN  IF "path" \notin DOMAIN event.d \/ raw.kind = "badjson"
           THEN pc' = "except" /\ UNCHANGED body
           ELSE /\ body' = IF raw.kind = "null" THEN BoundBody("object", EmptyDict)
                           ELSE BoundBody(raw.kind, raw.d)
                /\ pc' = ApiRouteOf(event.d.path, event.d.httpMethod)
    /\ UNCHANGED <<failed, user_profile, analysis, modelCalls, putLog, now, response>>
    /\ UnchangedJobState /\ UnchangedBatch /\ UnchangedProcess

\* the 'endpoints' dictionary of get_enhanced_status
StatusEndpoints ==
    { [method |-> "POST", path |-> "/job-search"],
      [method |-> "POST", path |-> "/resume-optimize"],
      [method |-> "GET", path |-> "/market-intelligence"] }

EEF_ApiStatus ==
    /\ handler = "eef" /\ pc = "api_status"
    /\ response' = Resp(200, {"message", "version", "features", "endpoints", "triggers",
                              "timestamp"}, 0)
    /\ pc' = "done"
    /\ UNCHANGED <<failed, user_profile, body, analysis, modelCalls, putLog, now>>
    /\ UnchangedJobState /\ UnchangedBatch /\ UnchangedProcess

\* handle_job_search_request
EEF_ApiJobSearch ==
    /\ handler = "eef" /\ pc = "api_job_search"
    /\ IF body.kind # "object"
       THEN /\ pc' = "except"
            /\ UNCHANGED <<analysis, modelCalls, putLog, failed, response>>
       ELSE /\ \E reply \in ReplyKinds :
                analysis' = [analysis EXCEPT
                    !["recommendations"] = generate_job_recommendations(reply)]
            /\ modelCalls' = [modelCalls EXCEPT !["recommendations"] = @ + 1]
            /\ \E ok \in BOOLEAN :
                IF ok
                THEN /\ putLog' = Append(putLog,
                            PutKey("data_table", "search", Second(now), "anonymous"))
                     /\ UNCHANGED failed
                ELSE /\ failed' = failed \cup {"store"}
                     /\ UNCHANGED putLog
            /\ response' = Resp(200, {"message", "search_id", "recommendations", "user_id",
                                      "timestamp"}, 0)
            /\ pc' = "done"
    /\ UNCHANGED <<user_profile, body, now>>
    /\ UnchangedJobState /\ UnchangedBatch /\ UnchangedProcess

\* a resume optimisation that requires the resume text only
EEF_ApiResume_ResumeOnly ==
    /\ handler = "eef" /\ pc = "api_resume"
    /\ IF body.kind # "object"
       THEN /\ pc' = "except"
            /\ UNCHANGED <<analysis, modelCalls, response>>
       ELSE IF Get(body.d, "resume_text", "") = ""
       THEN /\ response' = Resp(400, {"error"}, 0)
            /\ pc' = "done"
            /\ UNCHANGED <<analysis, modelCalls>>
       ELSE /\ \E reply \in ReplyKinds :
                analysis' = [analysis EXCEPT !["optimize"] = optimize_resume_with_ai(reply)]
            /\ modelCalls' = [modelCalls EXCEPT !["optimize"] = @ + 1]
            /\ response' = Resp(200, {"message", "optimization", "user_id", "timestamp"}, 0)
            /\ pc' = "done"
    /\ UNCHANGED <<failed, user_profile, body, putLog, now>>
    /\ UnchangedJobState /\ UnchangedBatch /\ UnchangedProcess

\* handle_resume_optimization
EEF_ApiResume ==
    /\ handler = "eef" /\ pc = "api_resume"
    /\ IF body.kind # "object"
       THEN /\ pc' = "except"
            /\ UNCHANGED <<analysis, modelCalls, response>>
       ELSE IF Get(body.d, "resume_text", "") = "" \/ Get(body.d, "job_description", "") = ""
       THEN /\ response' = Resp(400, {"error"}, 0)
            /\ pc' = "done"
            /\ UNCHANGED <<analysis, modelCalls>>
       ELSE /\ \E reply \in ReplyKinds :
                analysis' = [analysis EXCEPT !["optimize"] = optimize_resume_with_ai(reply)]
            /\ modelCalls' = [modelCalls EXCEPT !["optimize"] = @ + 1]
            /\ response' = Resp(200, {"message", "optimization", "user_id", "timestamp"}, 0)
            /\ pc' = "done"
    /\ UNCHANGED <<failed, user_profile, body, putLog, now>>
    /\ UnchangedJobState /\ UnchangedBatch /\ UnchangedProcess

\* handle_market_intelligence(event.get('queryStringParameters', {}), ...)
EEF_ApiMarket ==
    /\ handler = "eef" /\ pc = "api_market"
    /\ IF Get(event.d, "queryStringParameters", EmptyObjectBody).kind # "object"
       THEN /\ pc' = "except"
            /\ UNCHANGED <<analysis, modelCalls, response>>
       ELSE /\ \E reply \in ReplyKinds :
                analysis' = [analysis EXCEPT !["market"] = generate_market_intelligence(reply)]
            /\ modelCalls' = [modelCalls EXCEPT !["market"] = @ + 1]
            /\ response' = Resp(200, {"message", "analysis", "parameters", "timestamp"}, 0)
            /\ pc' = "done"
    /\ UNCHANGED <<failed, user_profile, body, putLog, now>>
    /\ UnchangedJobState /\ UnchangedBatch /\ UnchangedProcess

EEF_Except ==
    /\ handler = "eef" /\ pc = "except"
    /\ response' = Resp(500, {"error", "timestamp"}, 0)
    /\ pc' = "done"
    /\ UNCHANGED <<failed, user_profile, body, analysis, modelCalls, putLog, now>>
    /\ UnchangedJobState /\ UnchangedBatch /\ UnchangedProcess

EnhancedExistingFunction ==
    \/ EEF_InitClients \/ EEF_Dispatch \/ EEF_S3Record \/ EEF_S3Return
    \/ EEF_Dynamodb \/ EEF_Scheduled \/ EEF_Sqs \/ EEF_Api \/ EEF_ApiStatus
    \/ EEF_ApiJobSearch \/ EEF_ApiResume \/ EEF_ApiMarket \/ EEF_Except

----------------------------------------------------------------------------
(* job_search_agent.py                                                     *)

BasicCompanies ==
    << <<"TechCorp">>, <<"InnovateLab">>, <<"StartupXYZ">>, <<"DataDriven", "Inc">>,
       <<"CloudFirst">>, <<"AI", "Solutions">>, <<"DevOps", "Masters">>,
       <<"ScaleUp", "Co">>, <<"NextGen", "Tech">>, <<"FutureSoft">> >>

BasicJobTitles ==
    << <<"Software", "Engineer">>, <<"Frontend", "Developer">>, <<"Backend", "Engineer">>,
       <<"Full", "Stack", "Developer">>, <<"Data", "Scientist">>,
       <<"Machine", "Learning", "Engineer">>, <<"DevOps", "Engineer">>,
       <<"Product", "Manager">> >>

generate_mock_job_listings(location, experience_level) ==
    [n \in 1..MockListings |->
        LET i == n - 1
        IN  [ id |-> i + 1,
              title |-> experience_level \o BasicJobTitles[(i % Len(BasicJobTitles)) + 1],
              company |-> BasicCompanies[(i % Len(BasicCompanies)) + 1],
              location |-> location,
              salary_min |-> 70000 + (i * 2000),
              salary_max |-> 95000 + (i * 3000),
              remote_friendly |-> (i % 3 = 0),
              source |-> IF i % 3 = 0 THEN "indeed"
                         ELSE IF i % 3 = 1 THEN "linkedin" ELSE "glassdoor" ]]

search_multiple_job_boards(profile) ==
    generate_mock_job_listings(Get(profile, "location", <<"San", "Francisco">>),
                               Get(profile, "experience_level", EntryLevel))

\* the score of the reply without the clamp
calculate_ai_match_score_Unclamped(reply) ==
    IF reply.kind = "fail" THEN 50
    ELSE LET found == FirstDigits(ReplyText(reply), 1)
         IN  IF found >= 0 THEN found ELSE 50

\* re.search(r'\d+', score_text), clamped; 50 without digits or after a failure
calculate_ai_match_score(reply) ==
    IF reply.kind = "fail" THEN 50
    ELSE LET found == FirstDigits(ReplyText(reply), 1)
         IN  IF found >= 0 THEN Min(100, Max(0, found)) ELSE 50

calculate_basic_match_score(job, profile) ==
    LET job_domain == Lower(Get(profile, "job_domain", <<>>))
        user_salary == SalaryOf(profile).n
        user_location == Lower(Get(profile, "location", <<>>))
        experience_level == Lower(Get(profile, "experience_level", <<>>))
        s1 == IF Contains(Lower(job.title), job_domain) THEN 30 ELSE 0
        s2 == IF job.salary_min <= user_salary /\ user_salary <= job.salary_max
              THEN 25
              ELSE IF Abs(job.salary_min - user_salary) < 10000 THEN 15 ELSE 0
        s3 == IF Contains(Lower(job.location), user_location)
                 \/ Get(job, "remote_friendly", FALSE)
              THEN 20 ELSE 0
        s4 == IF Contains(Lower(job.title), experience_level) THEN 25 ELSE 0
    IN  Min(100, s1 + s2 + s3 + s4)

generate_match_reasons(job, profile) ==
    (IF job.match_score > 80 THEN {"excellent"}
     ELSE IF job.match_score > 60 THEN {"good"} ELSE {})
    \cup (IF Get(job, "remote_friendly", FALSE) THEN {"remote"} ELSE {})
    \cup (IF job.salary_max >= SalaryOf(profile).n THEN {"salary"} ELSE {})

generate_application_recommendations(job, profile) ==
    {"tailor", "research", "prepare"}
    \cup (IF job.match_score > 85 THEN {"apply"}
          ELSE IF job.match_score < 60 THEN {"skills"} ELSE {})

\* one pass of the loop of ai_job_matching: the job dictionary afterwards
MatchOneBasic(job, profile, reply) ==
    LET scored == Update(job, [match_score |-> calculate_ai_match_score(reply)])
        reasoned == Update(scored, [match_reasons |-> generate_match_reasons(scored, profile)])
    IN  Update(reasoned,
               [ai_recommendations |-> generate_application_recommendations(reasoned, profile)])

RECURSIVE InsertByScore(_, _, _)
InsertByScore(sorted, x, i) ==
    IF i > Len(sorted) THEN Append(sorted, x)
    ELSE IF x.match_score > sorted[i].match_score
         THEN SubSeq(sorted, 1, i - 1) \o <<x>> \o SubSeq(sorted, i, Len(sorted))
         ELSE InsertByScore(sorted, x, i + 1)

RECURSIVE SortByScoreFrom(_, _, _)
SortByScoreFrom(jobs, i, acc) ==
    IF i > Len(jobs) THEN acc
    ELSE SortByScoreFrom(jobs, i + 1, InsertByScore(acc, jobs[i], 1))

BasicJobsAfterMatching(jobs, profile, replies) ==
    [i \in 1..Len(jobs) |-> MatchOneBasic(jobs[i], profile, ReplyFor(replies, i))]

\* a matching step that hands back the best matches only
ai_job_matching_TopOnly(jobs, profile, replies) ==
    Take(SortByScoreFrom(BasicJobsAfterMatching(jobs, profile, replies), 1, <<>>),
         TopBasicMatches)

ai_job_matching(jobs, profile, replies) ==
    SortByScoreFrom(BasicJobsAfterMatching(jobs, profile, replies), 1, <<>>)

\* user_profile = event.get('user_profile', {}); boto3.client(...)
JS_Extract ==
    /\ handler = "js" /\ pc = "start"
    /\ IF event.shape # "dict"
       THEN pc' = "except" /\ UNCHANGED <<user_profile, failed>>
       ELSE /\ user_profile' = Bound(Get(event.d, "user_profile", EmptyDict))
            /\ \E ok \in BOOLEAN :
                /\ pc' = IF ok THEN "search" ELSE "except"
                /\ failed' = IF ok THEN failed ELSE failed \cup {"clients"}
    /\ UNCHANGED <<body, analysis, modelCalls, putLog, now, response>>
    /\ UnchangedJobState /\ UnchangedBatch /\ UnchangedProcess

JS_Search ==
    /\ handler = "js" /\ pc = "search"
    /\ job_results' = search_multiple_job_boards(user_profile.v)
    /\ pc' = "match"
    /\ UNCHANGED <<failed, user_profile, body, analysis, modelCalls, putLog, now,
                   response, input_jobs, matched_jobs>>
    /\ UnchangedBatch /\ UnchangedProcess

\* matched_jobs = ai_job_matching(bedrock_runtime, job_results, user_profile)
JS_Match ==
    /\ handler = "js" /\ pc = "match"
    /\ input_jobs' = job_results
    /\ IF ~SalaryOf(user_profile.v).isNum
       THEN /\ pc' = "except"
            /\ UNCHANGED <<job_results, matched_jobs, modelCalls>>
       ELSE \E replies \in ReplyPatterns :
            /\ job_results' = BasicJobsAfterMatching(job_results, user_profile.v, replies)
            /\ matched_jobs' = ai_job_matching(job_results, user_profile.v, replies)
            /\ modelCalls' = [modelCalls EXCEPT !["match"] = @ + Len(job_results)]
            /\ pc' = "store"
    /\ UNCHANGED <<failed, user_profile, body, analysis, putLog, now, response>>
    /\ UnchangedBatch /\ UnchangedProcess

\* store_job_results and the 200 response
JS_StoreAndReturn ==
    /\ handler = "js" /\ pc = "store"
    /\ \E ok \in BOOLEAN :
        IF ok
        THEN /\ putLog' = Append(putLog,
                    PutKey("bucket", "job_searches", Day(now),
                           Get(user_profile.v, "user_id", "None")))
             /\ UNCHANGED failed
        ELSE /\ failed' = failed \cup {"store"}
             /\ UNCHANGED putLog
    /\ response' = Resp(200, {"matched_jobs", "total_found", "search_timestamp",
                              "next_search_scheduled"},
                        Len(Take(matched_jobs, TopBasicMatches)))
    /\ pc' = "done"
    /\ UNCHANGED <<user_profile, body, analysis, modelCalls, now>>
    /\ UnchangedJobState /\ UnchangedBatch /\ UnchangedProcess

JS_Except ==
    /\ handler = "js" /\ pc = "except"
    /\ response' = Resp(500, {"error", "message"}, 0)
    /\ pc' = "done"
    /\ UNCHANGED <<failed, user_profile, body, analysis, modelCalls, putLog, now>>
    /\ UnchangedJobState /\ UnchangedBatch /\ UnchangedProcess

JobSearch ==
    JS_Extract \/ JS_Search \/ JS_Match \/ JS_StoreAndReturn \/ JS_Except

----------------------------------------------------------------------------
(* index.py                                                                *)

KeyC == ObjectKey("c", "png", "")

IndexRecordPool ==
    { S3Record(KeyA), S3Record(KeyC), DynamoRecord("INSERT"), SqsRecord("m1", TRUE) }

IndexRecordLists == SeqsUpTo(IndexRecordPool, MaxRecords)

IndexPaths == {"/job-search", "/resume-analyze", "/market-intel", "/status"}

IndexBodies ==
    { RawBody("null", EmptyDict), RawBody("badjson", EmptyDict),
      RawBody("array", EmptyDict), RawBody("object", [resume_text |-> "cv"]),
      RawBody("object", EmptyDict) }

\* authorization: whether the headers carry a bearer token that decodes
IndexApiEvents ==
    { DictEvent([httpMethod |-> m, path |-> p, body |-> b, queryStringParameters |-> q,
                 authorization |-> a]) :
        m \in {"GET", "POST"}, p \in IndexPaths, b \in IndexBodies,
        q \in {RawBody("object", EmptyDict), RawBody("null", EmptyDict)},
        a \in BOOLEAN }

IndexEvents ==
    {NullEvent, DictEvent(EmptyDict), DictEvent([httpMethod |-> "GET"])}
    \cup {DictEvent([Records |-> r]) : r \in IndexRecordLists}
    \cup {e \in IndexApiEvents :
            /\ e.d.queryStringParameters.kind = "null" => e.d.path = "/market-intel"
            /\ e.d.body.kind \notin {"null", "object"} => e.d.httpMethod = "POST"
            /\ e.d.authorization => e.d.body.kind \in {"object", "array"}}

\* the client is created before the try
IDX_InitClient ==
    /\ handler = "idx" /\ pc = "start"
    /\ \E ok \in BOOLEAN :
        IF ok
        THEN pc' = "dispatch" /\ UNCHANGED <<failed, response>>
        ELSE /\ pc' = "done"
             /\ failed' = failed \cup {"clients"}
             /\ response' = Raises("ClientError")
    /\ UNCHANGED <<user_profile, body, analysis, modelCalls, putLog, now>>
    /\ UnchangedJobState /\ UnchangedBatch /\ UnchangedProcess

\* where the if/elif chain of lambda_handler sends the event; "none" is the
\* end of the function without a return
IndexRouteOf(ev) ==
    IF ev.shape # "dict" THEN "except"
    ELSE IF "httpMethod" \in DOMAIN ev.d THEN "api"
    ELSE IF "Records" \in DOMAIN ev.d
         THEN IF Len(ev.d.Records) = 0 THEN "except"
              ELSE IF "s3" \in DOMAIN ev.d.Records[1] THEN "s3_loop"
              ELSE IF "dynamodb" \in DOMAIN ev.d.Records[1] THEN "dynamodb"
              ELSE "none"
    ELSE "default"

IDX_Dispatch ==
    /\ handler = "idx" /\ pc = "dispatch"
    /\ IF IndexRouteOf(event) = "none"
       THEN pc' = "done" /\ response' = ReturnsNone
       ELSE pc' = IndexRouteOf(event) /\ UNCHANGED response
    /\ UNCHANGED <<failed, user_profile, body, analysis, modelCalls, putLog, now>>
    /\ UnchangedJobState /\ UnchangedBatch /\ UnchangedProcess

\* where handle_api_request_with_ai sends a request
IndexApiRouteOf(path, method) ==
    IF path = "/job-search" /\ method = "POST" THEN "api_job_search"
    ELSE IF path = "/resume-analyze" /\ method = "POST" THEN "api_resume"
    ELSE IF path = "/market-intel" /\ method = "GET" THEN "api_market"
    ELSE "default"

\* handle_api_request_with_ai up to the routing: json.loads of the body,
\* which is '{}' only when the key is absent, and body['user_context'] = ...
IDX_Api ==
    /\ handler = "idx" /\ pc = "api"
    /\ LET raw == Get(event.d, "body", EmptyObjectBody)
           user_info == Get(event.d, "authorization", FALSE)
       IN  IF raw.kind \in {"null", "badjson"} \/ (user_info /\ raw.kind # "object")
           THEN pc' = "except" /\ UNCHANGED body
           ELSE /\ body' = BoundBody(raw.kind,
                                     IF user_info
                                     THEN Update(raw.d, [user_context |-> "claims"])
                                     ELSE raw.d)
                /\ pc' = IndexApiRouteOf(Get(event.d, "path", "/"), event.d.httpMethod)
    /\ UNCHANGED <<failed, user_profile, analysis, modelCalls, putLog, now, response>>
    /\ UnchangedJobState /\ UnchangedBatch /\ UnchangedProcess

\* one invoke_model call whose text goes into the response as it is
IndexModelCall(step, okKeys, failStatus, failKeys) ==
    /\ modelCalls' = [modelCalls EXCEPT ![step] = @ + 1]
    /\ \E ok \in BOOLEAN :
        IF ok
        THEN /\ analysis' = [analysis EXCEPT ![step] = Result("str", {}, <<>>, 0)]
             /\ response' = Resp(200, okKeys, 0)
             /\ UNCHANGED failed
        ELSE /\ failed' = failed \cup {step}
             /\ response' = Resp(failStatus, failKeys, 0)
             /\ UNCHANGED analysis
    /\ pc' = "done"

\* ai_job_search
IDX_ApiJobSearch ==
    /\ handler = "idx" /\ pc = "api_job_search"
    /\ IF body.kind # "object"
       THEN /\ pc' = "except"
            /\ UNCHANGED <<analysis, modelCalls, failed, response>>
       ELSE IndexModelCall("recommendations",
                {"message", "recommendations", "user_profile", "generated_at", "ai_model"},
                500, {"error", "fallback_message"})
    /\ UNCHANGED <<user_profile, body, putLog, now>>
    /\ UnchangedJobState /\ UnchangedBatch /\ UnchangedProcess

\* ai_resume_analysis
IDX_ApiResume ==
    /\ handler = "idx" /\ pc = "api_resume"
    /\ IF body.kind # "object"
       THEN /\ pc' = "except"
            /\ UNCHANGED <<analysis, modelCalls, failed, response>>
       ELSE IF Get(body.d, "resume_text", "") = ""
       THEN /\ response' = Resp(400, {"error"}, 0)
            /\ pc' = "done"
            /\ UNCHANGED <<analysis, modelCalls, failed>>
       ELSE IndexModelCall("resume_analysis",
                {"message", "analysis", "analyzed_at", "ai_model"}, 500, {"error"})
    /\ UNCHANGED <<user_profile, body, putLog, now>>
    /\ UnchangedJobState /\ UnchangedBatch /\ UnchangedProcess

\* ai_market_intelligence(event.get('queryStringParameters', {}), ...)
IDX_ApiMarket ==
    /\ handler = "idx" /\ pc = "api_market"
    /\ IF Get(event.d, "queryStringParameters", EmptyObjectBody).kind # "object"
       THEN /\ pc' = "except"
            /\ UNCHANGED <<analysis, modelCalls, failed, response>>
       ELSE IndexModelCall("market",
                {"message", "intelligence", "parameters", "generated_at", "ai_model"},
                500, {"error"})
    /\ UNCHANGED <<user_profile, body, putLog, now>>
    /\ UnchangedJobState /\ UnchangedBatch /\ UnchangedProcess

\* ai_general_response, also reached through handle_default_with_ai: the
\* except clause answers 200 with the list of features
IDX_General ==
    /\ handler = "idx" /\ pc = "default"
    /\ IndexModelCall("status", {"message", "ai_response", "timestamp"},
                      200, {"message", "features", "ai_status", "timestamp"})
    /\ UNCHANGED <<user_profile, body, putLog, now>>
    /\ UnchangedJobState /\ UnchangedBatch /\ UnchangedProcess

\* key.endswith(('.txt', '.pdf', '.docx'))
IsResumeFile(k) == k.ext \in {"txt", "pdf", "docx"}

\* one pass of the loop of handle_s3_with_ai; record['s3'] is read before
\* the try; analyze_uploaded_resume returns a string whether or not the
\* model call succeeds; a key with another extension appends nothing
IDX_S3Record ==
    /\ handler = "idx" /\ pc = "s3_loop"
    /\ position < Len(event.d.Records)
    /\ LET record == event.d.Records[position + 1]
       IN  IF "s3" \notin DOMAIN record
           THEN /\ pc' = "except"
                /\ UNCHANGED <<key, results, position, analysis, modelCalls, failed>>
           ELSE /\ key' = Bound(record.s3)
                /\ position' = position + 1
                /\ pc' = "s3_loop"
                /\ \/ \* s3_client.get_object fails
                      /\ results' = Append(results, BatchResult(record.s3, "error"))
                      /\ failed' = failed \cup {"get_object"}
                      /\ UNCHANGED <<analysis, modelCalls>>
                   \/ /\ IsResumeFile(record.s3)
                      /\ analysis' = [analysis EXCEPT
                            !["resume_analysis"] = Result("str", {}, <<>>, 0)]
                      /\ modelCalls' = [modelCalls EXCEPT !["resume_analysis"] = @ + 1]
                      /\ results' = Append(results, BatchResult(record.s3, "processed"))
                      /\ UNCHANGED failed
                   \/ /\ ~IsResumeFile(record.s3)
                      /\ UNCHANGED <<results, analysis, modelCalls, failed>>
    /\ UNCHANGED <<user_profile, body, putLog, now, response>>
    /\ UnchangedJobState /\ UnchangedProcess

IDX_S3Return ==
    /\ handler = "idx" /\ pc = "s3_loop"
    /\ position = Len(event.d.Records)
    /\ response' = Resp(200, {"message", "results"}, Len(results))
    /\ pc' = "done"
    /\ UNCHANGED <<failed, user_profile, body, analysis, modelCalls, putLog, now>>
    /\ UnchangedJobState /\ UnchangedBatch /\ UnchangedProcess

\* handle_dynamodb_with_ai: record['eventName'], record.get('dynamodb', {})
handle_dynamodb_with_ai(records) ==
    IF \E i \in 1..Len(records) : "eventName" \notin DOMAIN records[i]
    THEN Raise
    ELSE Return(Resp(200, {"message", "records"},
                     Cardinality({i \in 1..Len(records) :
                                    records[i].eventName \in {"INSERT", "MODIFY"}})))

IDX_Dynamodb ==
    /\ handler = "idx" /\ pc = "dynamodb"
    /\ LET r == handle_dynamodb_with_ai(event.d.Records)
       IN  IF r.raised
           THEN pc' = "except" /\ UNCHANGED response
           ELSE pc' = "done" /\ response' = r.val
    /\ UNCHANGED <<failed, user_profile, body, analysis, modelCalls, putLog, now>>
    /\ UnchangedJobState /\ UnchangedBatch /\ UnchangedProcess

IDX_Except ==
    /\ handler = "idx" /\ pc = "except"
    /\ response' = Resp(500, {"error", "message"}, 0)
    /\ pc' = "done"
    /\ UNCHANGED <<failed, user_profile, body, analysis, modelCalls, putLog, now>>
    /\ UnchangedJobState /\ UnchangedBatch /\ UnchangedProcess

Index ==
    \/ IDX_InitClient \/ IDX_Dispatch \/ IDX_Api \/ IDX_ApiJobSearch \/ IDX_ApiResume
    \/ IDX_ApiMarket \/ IDX_General \/ IDX_S3Record \/ IDX_S3Return \/ IDX_Dynamodb
    \/ IDX_Except

----------------------------------------------------------------------------
(* The specification                                                       *)

\* time passes between any two steps of a request
Tick ==
    /\ pc \notin {"done"}
    /\ now < MaxTick
    /\ now' = now + 1
    /\ UNCHANGED <<handler, pc, event, failed, user_profile, body, key, job_results,
                   input_jobs, matched_jobs, analysis, modelCalls, results, position,
                   putLog, hashSeed, scoreLog, response, session_state, page, issued>>

EventsOf(h) ==
    IF h = "ejs" THEN JobSearchEvents
    ELSE IF h = "emi" THEN MarketEvents
    ELSE IF h = "ero" THEN ResumeEvents
    ELSE IF h = "eef" THEN ExistingFunctionEvents
    ELSE IF h = "idx" THEN IndexEvents
    ELSE JobSearchEvents

Handlers == {"ejs", "emi", "ero", "eef", "js", "idx"}

Init ==
    /\ handler \in Handlers
    /\ event \in EventsOf(handler)
    /\ pc = "start"
    /\ failed = {}
    /\ user_profile = NotBound
    /\ body = NoBody
    /\ key = NotBound
    /\ job_results = <<>>
    /\ input_jobs = <<>>
    /\ matched_jobs = <<>>
    /\ analysis = [s \in StepNames |-> NoResult]
    /\ modelCalls = [s \in StepNames |-> 0]
    /\ results = <<>>
    /\ position = 0
    /\ putLog = <<>>
    /\ now = 0
    /\ hashSeed \in (IF handler = "ero" THEN 0..MaxSeed ELSE {0})
    /\ scoreLog = <<>>
    /\ response = NoResponse
    /\ session_state = EmptyDict
    /\ page = NoPage
    /\ issued = 0

Next ==
    \/ Tick
    \/ EnhancedJobSearch
    \/ EnhancedMarketIntelligence
    \/ EnhancedResumeOptimizer
    \/ EnhancedExistingFunction
    \/ JobSearch
    \/ Index

Spec == Init /\ [][Next]_vars

----------------------------------------------------------------------------
(* resume_optimizer.py: optimize_resume_with_ai                            *)

OptimizationKeys == {"optimized_content", "changes_summary", "ats_score", "recommendations"}

\* the JSON value is returned as it is; text that is not JSON is put under
\* optimized_content; a failed call gives the resume back
resume_optimizer_optimize_resume_with_ai(user_resume, reply) ==
    IF reply.kind = "fail"
    THEN Result("dict", OptimizationKeys \cup {"error"}, user_resume, 5)
    ELSE IF reply.kind = "text" THEN Result("dict", OptimizationKeys, reply.text, 7)
    ELSE IF reply.kind = "object"
         THEN Result("dict", IF reply.scoreKind = "absent" THEN {} ELSE {"score"}, <<>>, 0)
    ELSE IF reply.kind = "array" THEN Result("list", {}, <<>>, 0)
    ELSE IF reply.kind = "string" THEN Result("str", {}, <<>>, 0)
    ELSE Result("num", {}, <<>>, 0)

----------------------------------------------------------------------------
(* enhanced_market_intelligence.py: the market scores                      *)

BaseJobs(job_domain) ==
    CASE job_domain = "Software Engineering" -> 15000
      [] job_domain = "Data Science" -> 8000
      [] job_domain = "Product Management" -> 5000
      [] job_domain = "DevOps Engineering" -> 6000
      [] job_domain = "UX/UI Design" -> 4000
      [] job_domain = "Cybersecurity" -> 7000
      [] job_domain = "Machine Learning" -> 3500
      [] job_domain = "Cloud Architecture" -> 4500
      [] OTHER -> 5000

\* in tenths
LocationMultiplier(location) ==
    CASE location = "San Francisco" -> 18
      [] location = "New York" -> 16
      [] location = "Seattle" -> 14
      [] location = "Austin" -> 12
      [] location = "Remote" -> 20
      [] OTHER -> 10

generate_job_market_overview(job_domain, location) ==
    [total_job_openings |-> (BaseJobs(job_domain) * LocationMultiplier(location)) \div 10]

SalaryBase(job_domain, experience_level) ==
    LET row == CASE job_domain = "Software Engineering" -> <<75000, 110000, 150000>>
                 [] job_domain = "Data Science" -> <<80000, 120000, 160000>>
                 [] job_domain = "Product Management" -> <<85000, 125000, 170000>>
                 [] job_domain = "DevOps Engineering" -> <<78000, 115000, 155000>>
                 [] job_domain = "UX/UI Design" -> <<65000, 95000, 130000>>
                 [] job_domain = "Cybersecurity" -> <<82000, 118000, 165000>>
                 [] job_domain = "Machine Learning" -> <<85000, 125000, 175000>>
                 [] job_domain = "Cloud Architecture" -> <<80000, 120000, 170000>>
                 [] OTHER -> <<>>
        col == CASE experience_level = "Entry Level" -> 1
                 [] experience_level = "Mid Level" -> 2
                 [] experience_level = "Senior Level" -> 3
                 [] OTHER -> 0
    IN  IF col \in 1..Len(row) THEN row[col] ELSE 75000

\* in hundredths
LocationSalaryMultiplier(location) ==
    CASE location = "San Francisco" -> 140
      [] location = "New York" -> 130
      [] location = "Seattle" -> 125
      [] location = "Austin" -> 110
      [] location = "Remote" -> 115
      [] OTHER -> 100

\* int(base_salary * location_mult) in binary floating point: these products
\* fall just under the whole number and int() drops the fraction
FloatTruncLoss(base_salary, mult) ==
    IF \/ mult = 115 /\ base_salary \in {110000, 85000, 170000, 95000, 82000, 165000, 175000}
       \/ mult = 140 /\ base_salary \in {85000, 170000, 82000, 165000, 175000}
    THEN 1 ELSE 0

generate_salary_data(job_domain, location, experience_level) ==
    LET base_salary == SalaryBase(job_domain, experience_level)
        location_mult == LocationSalaryMultiplier(location)
    IN  [median_salary |-> ((base_salary * location_mult) \div 100)
                           - FloatTruncLoss(base_salary, location_mult)]

\* a number standing for the characters of a string
StringCode(str) ==
    CASE str = "Software Engineering" -> 1
      [] str = "Data Science" -> 2
      [] str = "Remote" -> 9
      [] str = "Austin" -> 4
      [] OTHER -> 3

\* job_domain + location
ConcatCode(a, b) == StringCode(a) * 100 + StringCode(b)

generate_demand_metrics(job_domain, location, seed) ==
    [demand_score |-> 70 + (PyHash(ConcatCode(job_domain, location), seed) % 30)]

gather_comprehensive_market_data(job_domain, location, experience_level, seed) ==
    [ job_market_overview |-> generate_job_market_overview(job_domain, location),
      salary_data |-> generate_salary_data(job_domain, location, experience_level),
      demand_metrics |-> generate_demand_metrics(job_domain, location, seed) ]

calculate_confidence_score(market_data) ==
    LET s1 == IF market_data.job_market_overview.total_job_openings > 5000 THEN 10 ELSE 0
        s2 == IF market_data.demand_metrics.demand_score > 70 THEN 10 ELSE 0
        s3 == IF market_data.salary_data.median_salary > 70000 THEN 5 ELSE 0
    IN  Min(100, 75 + s1 + s2 + s3)

----------------------------------------------------------------------------
(* The functions applied to inputs of their own, one function per          *)
(* behaviour; scoreLog keeps every invocation                              *)

Functions ==
    {"enhanced_match", "ai_match", "market_analysis", "optimize_resume", "job_scores",
     "market_scores", "top_matches", "dedupe"}

Invocation(request, reply, result, match_scores, scores) ==
    [ request |-> request, reply |-> reply,
      out |-> [result |-> result, match_scores |-> match_scores, scores |-> scores] ]

EnhancedSampleJobs ==
    LET jobs == search_multiple_job_boards_enhanced(ProfileFull)
    IN  {jobs[1], jobs[2]}

EnhancedAllJobs == Range(search_multiple_job_boards_enhanced(ProfileFull))

\* job dictionaries outside the mock boards' output: a leadership title at a
\* small company, every competitiveness bonus at once, and none of them
LeadJob ==
    [MockJob("dice", 2, <<"Austin">>, SeniorLevel) EXCEPT
        !.title = <<"Lead", "Engineer">>]

TopJob ==
    [MockJob("dice", 0, <<"Austin">>, SeniorLevel) EXCEPT !.equity_offered = TRUE]

PlainJob ==
    [MockJob("dice", 2, <<"Austin">>, EntryLevel) EXCEPT
        !.company_details = [name |-> <<"Acme">>, size |-> "Large",
                             industry |-> <<"Retail">>],
        !.salary_max = 80000]

ScoredJobs ==
    EnhancedAllJobs
    \cup {MockJob("monster", 1, <<"Austin">>, SeniorLevel), LeadJob, TopJob, PlainJob}

ProfileRemoteAny == [ work_style |-> "Remote", experience_level |-> MidLevel ]

ProfileOnSite ==
    [ work_style |-> "On-site", company_size_pref |-> "Large",
      industry_interest |-> <<"Healthcare">> ]

ScoringProfiles == NumericProfiles \cup {ProfileRemoteAny, ProfileOnSite}

BasicSampleJobs ==
    LET jobs == search_multiple_job_boards(ProfileFull)
    IN  {jobs[1], jobs[MockListings]}

MatchAnalysisKeys == {"score", "reasons", "skill_gaps", "growth_potential", "recommendations"}

MarketInputs ==
    [ job_domain : {"Software Engineering", "Nursing"},
      location : {"Remote", "Austin"},
      experience_level : {"Entry Level", "Senior Level"} ]

SampleResumes == {<<W("cv"), W("one")>>, <<W("cv"), W("two")>>}

\* lists longer than the response's cut, scored so that scores tie, salaries
\* tie under equal scores, and remote-friendliness differs under both
ScorePatterns == [a : {0, 1, 7}, b : {0, 3}, m : {4, 11}]

ScoredList(pat) ==
    LET base == ConcatBoards(3, <<"Austin">>, SeniorLevel)
    IN  [i \in 1..SortInputLen |->
            Update(base[i],
                   [ match_score |-> ((i * pat.a + pat.b) % pat.m) * 9,
                     remote_friendly |-> (base[i].remote_friendly # (i > JobsPerBoard)) ])]

\* jobs that differ in board only, in the case of the title only, in the
\* company only, and in everything
DedupePool ==
    LET first == MockJob("indeed", 0, <<"Austin">>, EntryLevel)
    IN  { first,
          MockJob("linkedin", 0, <<"Austin">>, EntryLevel),
          [first EXCEPT !.id = <<"dice", 1>>, !.source = "dice",
                        !.title = Lower(first.title)],
          [first EXCEPT !.id = <<"glassdoor", 1>>, !.source = "glassdoor",
                        !.company = <<"CloudFirst">>],
          MockJob("indeed", 1, <<"Austin">>, EntryLevel) }

DedupeInputs == SeqsUpTo(DedupePool, MaxJobs)

FnFrame ==
    UNCHANGED <<handler, pc, event, failed, user_profile, body, key, job_results, input_jobs,
                matched_jobs, analysis, modelCalls, results, position, putLog, now,
                response, session_state, page, issued>>

\* the loop body of ai_job_matching_enhanced for one job, the try block of
\* calculate_enhanced_ai_match_score and the basic scorer
FN_EnhancedMatch ==
    /\ handler = "enhanced_match" /\ Len(scoreLog) < MaxCalls
    /\ \E job \in EnhancedSampleJobs, profile \in {ProfileFull, ProfileSenior},
          reply \in Replies :
        scoreLog' = Append(scoreLog,
            Invocation([job |-> job.id, profile |-> profile], reply,
                       Result("dict", MatchAnalysisKeys, <<>>, EnhancedScoreOfReply(reply).score),
                       { MatchOneEnhanced(job, profile, reply).match_score,
                         EnhancedScoreOfReply(reply).score,
                         calculate_enhanced_basic_match_score(job, profile).match_score },
                       EmptyDict))
    /\ FnFrame /\ UNCHANGED hashSeed

\* the loop body of ai_job_matching for one job and the basic scorer
FN_AiMatch ==
    /\ handler = "ai_match" /\ Len(scoreLog) < MaxCalls
    /\ \E job \in BasicSampleJobs, profile \in {ProfileFull, ProfileSenior},
          reply \in Replies :
        scoreLog' = Append(scoreLog,
            Invocation([job |-> job.id, profile |-> profile], reply, NoResult,
                       { MatchOneBasic(job, profile, reply).match_score,
                         calculate_basic_match_score(job, profile) },
                       EmptyDict))
    /\ FnFrame /\ UNCHANGED hashSeed

FN_MarketAnalysis ==
    /\ handler = "market_analysis" /\ Len(scoreLog) < MaxCalls
    /\ \E profile \in {ProfileFull, ProfileSenior}, reply \in Replies :
        scoreLog' = Append(scoreLog,
            Invocation(profile, reply, get_market_analysis(profile, reply), {}, EmptyDict))
    /\ FnFrame /\ UNCHANGED hashSeed

FN_OptimizeResume ==
    /\ handler = "optimize_resume" /\ Len(scoreLog) < MaxCalls
    /\ \E user_resume \in SampleResumes, reply \in Replies :
        scoreLog' = Append(scoreLog,
            Invocation(user_resume, reply,
                       resume_optimizer_optimize_resume_with_ai(user_resume, reply),
                       {}, EmptyDict))
    /\ FnFrame /\ UNCHANGED hashSeed

\* the heuristics that score one job against one profile
FN_JobScores ==
    /\ handler = "job_scores" /\ Len(scoreLog) < MaxCalls
    /\ \E job \in ScoredJobs, profile \in ScoringProfiles :
        scoreLog' = Append(scoreLog,
            Invocation([job |-> job, profile |-> profile], NoReply, NoResult, {},
                       [ salary_analysis |-> analyze_salary_fit(job, profile),
                         culture_fit |-> analyze_culture_fit(job, profile),
                         career_progression |-> analyze_career_progression(job, profile),
                         urgency_score |-> calculate_urgency_score(job.posted_days_ago),
                         competitiveness_score |-> calculate_competitiveness_score(job) ]))
    /\ FnFrame /\ UNCHANGED hashSeed

\* the sort that ends ai_job_matching_enhanced and the cut lambda_handler
\* makes for the response body
FN_TopMatches ==
    /\ handler = "top_matches" /\ Len(scoreLog) < MaxCalls
    /\ \E pat \in ScorePatterns :
        LET sorted == SortMatched(ScoredList(pat))
        IN  scoreLog' = Append(scoreLog,
                Invocation(ScoredList(pat), NoReply, NoResult, {},
                           [ sorted |-> sorted,
                             matched_jobs |-> Take(sorted, TopMatches) ]))
    /\ FnFrame /\ UNCHANGED hashSeed

\* remove_duplicate_jobs applied to one list, and to its own output
FN_Dedupe ==
    /\ handler = "dedupe" /\ scoreLog = <<>>
    /\ \E jobs \in DedupeInputs :
        scoreLog' = Append(scoreLog,
            Invocation(jobs, NoReply, NoResult, {},
                       [ once |-> remove_duplicate_jobs(jobs),
                         twice |-> remove_duplicate_jobs(remove_duplicate_jobs(jobs)) ]))
    /\ FnFrame /\ UNCHANGED hashSeed

\* the scores of one market-intelligence request, in the running process
FN_MarketScores ==
    /\ handler = "market_scores" /\ Len(scoreLog) < MaxCalls
    /\ \E in \in MarketInputs :
        LET market_data == gather_comprehensive_market_data(
                               in.job_domain, in.location, in.experience_level, hashSeed)
        IN  scoreLog' = Append(scoreLog,
                Invocation(in, NoReply, NoResult, {},
                           [ total_job_openings |->
                               market_data.job_market_overview.total_job_openings,
                             median_salary |-> market_data.salary_data.median_salary,
                             demand_score |-> market_data.demand_metrics.demand_score,
                             confidence_score |-> calculate_confidence_score(market_data) ]))
    /\ FnFrame /\ UNCHANGED hashSeed

\* the next invocation is served by a new Python process: hash() of a string
\* is salted anew
ColdStart ==
    /\ handler = "market_scores"
    /\ \E seed \in 0..MaxSeed :
        /\ seed # hashSeed
        /\ hashSeed' = seed
    /\ FnFrame /\ UNCHANGED scoreLog

InitFn ==
    /\ handler \in Functions
    /\ event = NullEvent
    /\ pc = "idle"
    /\ failed = {}
    /\ user_profile = NotBound
    /\ body = NoBody
    /\ key = NotBound
    /\ job_results = <<>>
    /\ input_jobs = <<>>
    /\ matched_jobs = <<>>
    /\ analysis = [s \in StepNames |-> NoResult]
    /\ modelCalls = [s \in StepNames |-> 0]
    /\ results = <<>>
    /\ position = 0
    /\ putLog = <<>>
    /\ now = 0
    /\ hashSeed \in (IF handler = "market_scores" THEN 0..MaxSeed ELSE {0})
    /\ scoreLog = <<>>
    /\ response = NoResponse
    /\ session_state = EmptyDict
    /\ page = NoPage
    /\ issued = 0

NextFn ==
    \/ FN_EnhancedMatch
    \/ FN_AiMatch
    \/ FN_MarketAnalysis
    \/ FN_OptimizeResume
    \/ FN_JobScores
    \/ FN_MarketScores
    \/ FN_TopMatches
    \/ FN_Dedupe
    \/ ColdStart

SpecFn == InitFn /\ [][NextFn]_vars

----------------------------------------------------------------------------
(* cognito_streamlit_integration.py: the Streamlit login flow.  One action *)
(* is one user interaction: the script run it triggers, together with the  *)
(* rerun that st.rerun() starts.                                           *)

\* Python's None, a token that the n-th answered sign-in issued to a user,
\* and a user_info dict ({} or the attributes of a user)
None == [kind |-> "None", user |-> "", of |-> 0]
Token(kind, user, n) == [kind |-> kind, user |-> user, of |-> n]
NoUserInfo == [kind |-> "dict", user |-> "", of |-> 0]
UserAttributes(user) == [kind |-> "dict", user |-> user, of |-> 0]

\* what the user may have typed into a text_input
TextInputs == {"", "typed"}
Emails == {"", "ann@example.com", "raj@example.com"}

\* CognitoAuth.sign_in: initiate_auth answers with tokens or raises
sign_in(email, accepted, n) ==
    IF accepted
    THEN [success |-> TRUE,
          AccessToken |-> Token("AccessToken", email, n),
          IdToken |-> Token("IdToken", email, n),
          RefreshToken |-> Token("RefreshToken", email, n)]
    ELSE [success |-> FALSE, AccessToken |-> None, IdToken |-> None,
          RefreshToken |-> None]

\* CognitoAuth.get_user_info: get_user answers with attributes or raises
get_user_info(access_token, answered) ==
    IF answered
    THEN [success |-> TRUE, user_info |-> UserAttributes(access_token.user)]
    ELSE [success |-> FALSE, user_info |-> NoUserInfo]

\* main, lines 103-109: a key is initialised only when it is absent
InitSessionState(ss) ==
    Update(("authenticated" :> FALSE) @@ ("user_info" :> NoUserInfo)
               @@ ("access_token" :> None),
           ss)

\* main, lines 112-115: the page a script run renders
PageFor(ss) == IF ~ss["authenticated"] THEN "auth" ELSE "main"

Rendered(ss, message) == [shown |-> PageFor(ss), message |-> message]

\* the Sign In form of show_auth_page
SignInForm(ss, email, password, accepted, answered, n) ==
    IF ~(email # "" /\ password # "")
    THEN [ss |-> ss, message |-> "", rerun |-> FALSE]
    ELSE LET result == sign_in(email, accepted, n)
         IN  IF result.success
             THEN LET withTokens ==
                          Update(ss, ("access_token" :> result.AccessToken)
                                         @@ ("id_token" :> result.IdToken)
                                         @@ ("refresh_token" :> result.RefreshToken))
                      user == get_user_info(result.AccessToken, answered)
                  IN  IF user.success
                      THEN [ss |-> Update(withTokens,
                                          ("user_info" :> user.user_info)
                                              @@ ("authenticated" :> TRUE)),
                            message |-> "", rerun |-> TRUE]
                      ELSE [ss |-> withTokens,
                            message |-> "Failed to get user information",
                            rerun |-> FALSE]
             ELSE [ss |-> ss, message |-> "Sign in failed", rerun |-> FALSE]

\* the Logout button of show_main_app
Logout(ss) ==
    Update(ss, ("authenticated" :> FALSE) @@ ("user_info" :> NoUserInfo)
                   @@ ("access_token" :> None))

\* call_lambda_api: the request carries the session's access token
call_lambda_api(ss, endpoint, answered) ==
    [success |-> answered, endpoint |-> endpoint,
     Authorization |-> ss["access_token"]]

\* the buttons of the three tabs and the endpoint each one calls
ApiButtons ==
    ("Search Jobs with AI" :> "/job-search")
        @@ ("Optimize Resume with AI" :> "/resume-analyze")
        @@ ("Get Market Intelligence" :> "/market-intel")

ButtonMessage(button, reply) ==
    IF ~reply.success THEN "API call failed"
    ELSE CASE button = "Search Jobs with AI" -> "AI Job Search Completed"
           [] button = "Optimize Resume with AI" -> "Resume Analysis Complete"
           [] OTHER -> "Market Analysis Complete"

AuthFrame ==
    UNCHANGED <<handler, pc, event, failed, user_profile, body, key, job_results,
                input_jobs, matched_jobs, analysis, modelCalls, results, position,
                putLog, now, hashSeed, scoreLog, response>>

\* the browser opens the app: the first script run of the session
APP_Open ==
    /\ page = NoPage
    /\ session_state' = InitSessionState(session_state)
    /\ page' = Rendered(session_state', "")
    /\ UNCHANGED issued
    /\ AuthFrame

APP_SignIn ==
    /\ page.shown = "auth"
    /\ \E email \in Emails, password \in TextInputs,
          accepted \in BOOLEAN, answered \in BOOLEAN :
          LET calls == email # "" /\ password # ""
              run == SignInForm(InitSessionState(session_state), email, password,
                                accepted, answered, issued + 1)
          IN  /\ (calls /\ accepted) => issued < MaxSignIns
              /\ session_state' = run.ss
              /\ issued' = IF calls /\ accepted THEN issued + 1 ELSE issued
              /\ page' = IF run.rerun
                         THEN Rendered(InitSessionState(run.ss), "")
                         ELSE [shown |-> "auth", message |-> run.message]
    /\ AuthFrame

\* the Sign Up form: the session state is not touched
APP_SignUp ==
    /\ page.shown = "auth"
    /\ \E email \in Emails, password \in TextInputs,
          given_name \in TextInputs, family_name \in TextInputs,
          success \in BOOLEAN :
          page' = [shown |-> "auth",
                   message |->
                       IF ~(email # "" /\ password # "" /\ given_name # ""
                                /\ family_name # "")
                       THEN ""
                       ELSE IF success THEN "User registered successfully"
                       ELSE "Sign up failed"]
    /\ session_state' = InitSessionState(session_state)
    /\ UNCHANGED issued
    /\ AuthFrame

\* the Confirm Email form: the session state is not touched
APP_ConfirmSignUp ==
    /\ page.shown = "auth"
    /\ \E email \in Emails, code \in TextInputs, success \in BOOLEAN :
          page' = [shown |-> "auth",
                   message |->
                       IF ~(email # "" /\ code # "")
                       THEN ""
                       ELSE IF success THEN "Email confirmed successfully"
                       ELSE "Confirmation failed"]
    /\ session_state' = InitSessionState(session_state)
    /\ UNCHANGED issued
    /\ AuthFrame

APP_Logout ==
    /\ page.shown = "main"
    /\ session_state' = Logout(InitSessionState(session_state))
    /\ page' = Rendered(InitSessionState(session_state'), "")
    /\ UNCHANGED issued
    /\ AuthFrame

\* a button of the job search, resume or market tab: the session state is
\* read, never written
APP_CallApi ==
    /\ page.shown = "main"
    /\ \E button \in DOMAIN ApiButtons, answered \in BOOLEAN :
          LET ss == InitSessionState(session_state)
              reply == call_lambda_api(ss, ApiButtons[button], answered)
          IN  /\ session_state' = ss
              /\ page' = Rendered(ss, ButtonMessage(button, reply))
    /\ UNCHANGED issued
    /\ AuthFrame

InitAuth ==
    /\ handler = "app"
    /\ event = NullEvent
    /\ pc = "idle"
    /\ failed = {}
    /\ user_profile = NotBound
    /\ body = NoBody
    /\ key = NotBound
    /\ job_results = <<>>
    /\ input_jobs = <<>>
    /\ matched_jobs = <<>>
    /\ analysis = [s \in StepNames |-> NoResult]
    /\ modelCalls = [s \in StepNames |-> 0]
    /\ results = <<>>
    /\ position = 0
    /\ putLog = <<>>
    /\ now = 0
    /\ hashSeed = 0
    /\ scoreLog = <<>>
    /\ response = NoResponse
    /\ session_state = EmptyDict
    /\ page = NoPage
    /\ issued = 0

NextAuth ==
    \/ APP_Open
    \/ APP_SignIn
    \/ APP_SignUp
    \/ APP_ConfirmSignUp
    \/ APP_CallApi
    \/ APP_Logout

SpecAuth == InitAuth /\ [][NextAuth]_vars

----------------------------------------------------------------------------
(* Properties                                                              *)

EnhancedHandlers == {"ejs", "emi", "ero"}

Returned500 == response.kind = "returned" /\ response.statusCode = 500

\* C1: when an enhanced handler (job search, market intelligence, resume
\* optimizer) has finished, it has returned a response with statusCode 200
\* or 500: no exception has left lambda_handler, whichever step failed
C1_NeverPropagates ==
    (handler \in EnhancedHandlers /\ pc = "done")
        => (response.kind = "returned" /\ response.statusCode \in {200, 500})

\* C2: every response with statusCode 500, of any handler, carries error_id
C2_Every500HasErrorId ==
    Returned500 => "error_id" \in response.keys

\* C2 as the handlers have it: a 500 of an enhanced handler carries error and
\* error_id; a 500 of job_search_agent or enhanced_existing_function carries
\* error and no error_id
C2_Enhanced500HasErrorId ==
    Returned500 =>
        IF handler \in EnhancedHandlers
        THEN {"error", "error_id"} \subseteq response.keys
        ELSE "error" \in response.keys /\ "error_id" \notin response.keys

C2_Witness ==
    /\ Returned500
    /\ handler \in EnhancedHandlers
    /\ "error_id" \in response.keys

AnalysisFunctions == {"enhanced_match", "market_analysis", "optimize_resume"}

\* two invocations for the same request, both answered by text that is not JSON
BothUnparseable(i, j) ==
    /\ handler \in AnalysisFunctions
    /\ scoreLog[i].request = scoreLog[j].request
    /\ scoreLog[i].reply.kind = "text"
    /\ scoreLog[j].reply.kind = "text"

\* C3: two replies that are not JSON, to the same request, give the same
\* result: the fallback does not depend on the reply text
C3_FallbackIgnoresText ==
    \A i, j \in DOMAIN scoreLog :
        BothUnparseable(i, j) => scoreLog[i].out.result = scoreLog[j].out.result

\* C3 as the functions have it: two replies that are not JSON, to the same
\* request, give dictionaries with the same keys; the values under the keys
\* may come from the reply text
C3_FallbackKeysFixed ==
    \A i, j \in DOMAIN scoreLog :
        BothUnparseable(i, j) =>
            /\ scoreLog[i].out.result.type = "dict"
            /\ scoreLog[i].out.result.keys = scoreLog[j].out.result.keys
            /\ scoreLog[i].out.result.keys # {}

C3_Witness ==
    \E i, j \in DOMAIN scoreLog :
        /\ BothUnparseable(i, j)
        /\ scoreLog[i].reply # scoreLog[j].reply
        /\ scoreLog[i].out.result # scoreLog[j].out.result
        /\ scoreLog[i].out.result.keys = scoreLog[j].out.result.keys

\* C4: whatever the model call gave, the market analysis and the resume
\* analysis are dictionaries
C4_AnalysisIsDict ==
    \A step \in {"market_analysis", "resume_analysis"} :
        analysis[step].type \in {"none", "dict"}

\* a Records list whose entries carry messageId and body, no s3, no dynamodb
IsSqsEvent(ev) ==
    /\ ev.shape = "dict"
    /\ "Records" \in DOMAIN ev.d
    /\ Len(ev.d.Records) > 0
    /\ \A i \in 1..Len(ev.d.Records) :
        /\ {"messageId", "body"} \subseteq DOMAIN ev.d.Records[i]
        /\ DOMAIN ev.d.Records[i] \cap {"s3", "dynamodb"} = {}

\* C5: an SQS event given to enhanced_existing_function.lambda_handler, with
\* the clients created, is answered with statusCode 200 and processed_count
\* equal to the number of records
C5_SqsAnswered ==
    (handler = "eef" /\ pc = "done" /\ failed = {} /\ IsSqsEvent(event))
        => /\ response.kind = "returned"
           /\ response.statusCode = 200
           /\ "processed_count" \in response.keys
           /\ response.count = Len(event.d.Records)

\* C6: every match_score that ai_job_matching_enhanced and ai_job_matching
\* attach to a job, and every score of the try block and of the basic
\* scorers, lies in 0..100
C6_MatchScoreInRange ==
    \A i \in DOMAIN scoreLog : scoreLog[i].out.match_scores \subseteq 0..100

C6_Witness ==
    \E i \in DOMAIN scoreLog :
        /\ handler = "ai_match"
        /\ scoreLog[i].reply.kind = "object"
        /\ scoreLog[i].reply.scoreVal > 100
        /\ 100 \in scoreLog[i].out.match_scores

\* C7: an enhanced job-search request that is answered with 200 has made one
\* model call for each deduplicated job and one for the market analysis
C7_OneCallPerJob ==
    (handler = "ejs" /\ pc = "done" /\ response.statusCode = 200)
        => /\ modelCalls["match"] = Len(job_results)
           /\ modelCalls["market_analysis"] = 1

\* C8: no two storage writes of a behaviour have the same key
C8_DistinctKeys ==
    \A i, j \in DOMAIN putLog : i # j => putLog[i] # putLog[j]

\* C9: after ai_job_matching_enhanced the caller's job_results list is what
\* it was before the call
C9_PassedByValue ==
    (handler = "ejs" /\ matched_jobs # <<>>) => job_results = input_jobs

\* the deduplicated listings as they were before enhance_job_data
RawJobs(profile) ==
    remove_duplicate_jobs(
        ConcatBoards(Len(Boards), Get(profile, "location", <<"Remote">>),
                     Get(profile, "experience_level", EntryLevel)))

\* job dictionary b is job dictionary a with fields added and none changed
ExtendsJob(a, b) ==
    /\ DOMAIN a \subseteq DOMAIN b
    /\ DOMAIN a # DOMAIN b
    /\ \A k \in DOMAIN a : b[k] = a[k]

\* C9 as the functions have it: enhance_job_data and ai_job_matching_enhanced
\* add fields to each job dictionary of the list they receive, in place; the
\* list keeps its length and order and every field a job had keeps its value
C9_FieldsAddedInPlace ==
    (handler = "ejs" /\ matched_jobs # <<>>) =>
        /\ Len(job_results) = Len(input_jobs)
        /\ Len(input_jobs) = Len(RawJobs(user_profile.v))
        /\ \A i \in 1..Len(input_jobs) :
            /\ ExtendsJob(RawJobs(user_profile.v)[i], input_jobs[i])
            /\ ExtendsJob(input_jobs[i], job_results[i])
            /\ "match_score" \in DOMAIN job_results[i]

C9_Witness ==
    /\ handler = "ejs"
    /\ matched_jobs # <<>>
    /\ job_results # input_jobs
    /\ matched_jobs # job_results

\* C10: two invocations of the scoring heuristics with the same inputs give
\* the same scores
C10_Deterministic ==
    \A i, j \in DOMAIN scoreLog :
        (handler \in {"job_scores", "market_scores"}
         /\ scoreLog[i].request = scoreLog[j].request)
            => scoreLog[i].out.scores = scoreLog[j].out.scores

\* the culture-fit bonuses a job earns for a profile, as the specification
\* lists them
CultureBonuses(job, profile) ==
    LET pref == Get(profile, "company_size_pref", "Any")
        style == Get(profile, "work_style", "Hybrid")
        industry == Get(profile, "industry_interest", <<"Technology">>)
    IN  (IF pref \in {"Any", job.company_details.size} THEN 15 ELSE 0)
        + (IF style = "Remote" /\ job.remote_friendly THEN 10
           ELSE IF style = "Hybrid"
                   /\ (job.location # <<"Remote">> \/ job.remote_friendly)
                THEN 5 ELSE 0)
        + (IF Contains(Lower(job.company_details.industry), Lower(industry))
           THEN 5 ELSE 0)

\* C11: for every job and profile the culture-fit score is 70 plus the
\* bonuses earned and lies in 70..100, the career-progression score lies in
\* 70..100 and the competitiveness score lies in 50..100
C11_SubScoresInRange ==
    handler = "job_scores" =>
        \A i \in DOMAIN scoreLog :
            LET req == scoreLog[i].request
                scores == scoreLog[i].out.scores
            IN  /\ scores.culture_fit.score = 70 + CultureBonuses(req.job, req.profile)
                /\ scores.culture_fit.score \in 70..100
                /\ scores.career_progression.score \in 70..100
                /\ scores.competitiveness_score \in 50..100

\* the caps are reached by a job with every bonus and by a leadership title
\* at a small company, the culture floor by a profile that matches nothing
C11_Witness ==
    /\ handler = "job_scores"
    /\ \E i, j \in DOMAIN scoreLog :
        /\ scoreLog[i].request.job = TopJob
        /\ scoreLog[i].out.scores.culture_fit.score = 100
        /\ scoreLog[i].out.scores.competitiveness_score = 100
        /\ scoreLog[j].request.job = LeadJob
        /\ scoreLog[j].out.scores.career_progression.score = 100
        /\ scoreLog[j].out.scores.culture_fit.score = 70

\* C12: for every event dictionary, lambda_handler of index.py and of
\* enhanced_existing_function.py, once its clients are created, returns a
\* response with a statusCode and never ends without one
C12_DispatchTotal ==
    (handler \in {"idx", "eef"} /\ pc = "done" /\ event.shape = "dict"
     /\ "clients" \notin failed)
        => /\ response.kind = "returned"
           /\ response.statusCode \in {200, 400, 500}

\* the order the specification gives two neighbours of the response's list
RankedBefore(a, b) ==
    \/ a.match_score > b.match_score
    \/ /\ a.match_score = b.match_score
       /\ a.salary_max > b.salary_max
    \/ /\ a.match_score = b.match_score
       /\ a.salary_max = b.salary_max
       /\ (b.remote_friendly => a.remote_friendly)

\* C13: the matched_jobs of a response are at most 15 jobs in non-increasing
\* order of match_score, ties broken by higher salary_max and then by
\* remote-friendly first, and no job left out has a higher match_score than
\* a job included
C13_TopMatchesOrdered ==
    handler = "top_matches" =>
        \A n \in DOMAIN scoreLog :
            LET given == scoreLog[n].request
                top == scoreLog[n].out.scores.matched_jobs
            IN  /\ Len(top) <= TopMatches
                /\ Range(top) \subseteq Range(given)
                /\ \A k \in 1..(Len(top) - 1) : RankedBefore(top[k], top[k + 1])
                /\ \A x \in Range(given) \ Range(top), y \in Range(top) :
                       x.match_score <= y.match_score

\* a list longer than the cut, whose response holds a tie on the score
\* decided by the salary and a tie on both decided by remote-friendliness
C13_Witness ==
    /\ handler = "top_matches"
    /\ \E n \in DOMAIN scoreLog :
        LET top == scoreLog[n].out.scores.matched_jobs
        IN  /\ Len(scoreLog[n].request) > TopMatches
            /\ Len(top) = TopMatches
            /\ Range(scoreLog[n].request) \ Range(top) # {}
            /\ \E k \in 1..(Len(top) - 1) :
                  /\ top[k].match_score = top[k + 1].match_score
                  /\ top[k].salary_max > top[k + 1].salary_max
            /\ \E k \in 1..(Len(top) - 1) :
                  /\ top[k].match_score = top[k + 1].match_score
                  /\ top[k].salary_max = top[k + 1].salary_max
                  /\ top[k].remote_friendly /\ ~top[k + 1].remote_friendly
            /\ \E k \in 1..(Len(top) - 1) :
                  top[k].match_score > top[k + 1].match_score

Count(seq, x) == Cardinality({i \in DOMAIN seq : seq[i] = x})

IsPermutation(a, b) ==
    /\ Len(a) = Len(b)
    /\ \A x \in Range(a) \cup Range(b) : Count(a, x) = Count(b, x)

Ids(jobs) == [i \in DOMAIN jobs |-> jobs[i].id]

\* C14: the list that ai_job_matching_enhanced or ai_job_matching returns is
\* a permutation of the caller's list, no job dropped or duplicated, every
\* job carries a match_score, and the number of jobs found equals the
\* number of matched jobs
C14_MatchingIsPermutation ==
    (handler \in {"ejs", "js"} /\ matched_jobs # <<>>)
        => /\ IsPermutation(matched_jobs, job_results)
           /\ IsPermutation(Ids(matched_jobs), Ids(input_jobs))
           /\ \A i \in DOMAIN matched_jobs : "match_score" \in DOMAIN matched_jobs[i]
           /\ Len(job_results) = Len(matched_jobs)

\* ai_job_matching has returned a list in an order other than its input's,
\* with jobs of different scores
C14_Witness ==
    /\ handler = "js" /\ pc = "done"
    /\ Len(matched_jobs) = MockListings
    /\ Ids(matched_jobs) # Ids(input_jobs)
    /\ \E i, j \in DOMAIN matched_jobs :
          matched_jobs[i].match_score # matched_jobs[j].match_score

LoweredPair(job) == <<Lower(job.title), Lower(job.company)>>

\* the jobs of a list whose lower-cased pair no earlier job of the list has,
\* in the order of the list
RECURSIVE FirstOccurrences(_, _)
FirstOccurrences(jobs, n) ==
    IF n = 0 THEN <<>>
    ELSE IF \E j \in 1..(n - 1) : LoweredPair(jobs[j]) = LoweredPair(jobs[n])
         THEN FirstOccurrences(jobs, n - 1)
         ELSE Append(FirstOccurrences(jobs, n - 1), jobs[n])

\* C15: the output of remove_duplicate_jobs has no two jobs with the same
\* lower-cased title and company, it is the input without the later
\* occurrences of each pair, and deduplicating twice equals once
C15_DedupeByTitleAndCompany ==
    handler = "dedupe" =>
        \A n \in DOMAIN scoreLog :
            LET given == scoreLog[n].request
                once == scoreLog[n].out.scores.once
            IN  /\ \A i, j \in DOMAIN once :
                      i # j => LoweredPair(once[i]) # LoweredPair(once[j])
                /\ once = FirstOccurrences(given, Len(given))
                /\ scoreLog[n].out.scores.twice = once

\* a list in which a later job repeats an earlier one in another case, with
\* a different job between them, and a job of another company is kept
C15_Witness ==
    /\ handler = "dedupe"
    /\ \E n \in DOMAIN scoreLog :
        LET given == scoreLog[n].request
            once == scoreLog[n].out.scores.once
        IN  /\ Len(given) = 3 /\ Len(once) = 2
            /\ given[1].title # given[3].title
            /\ LoweredPair(given[1]) = LoweredPair(given[3])
            /\ given[1].title = given[2].title
            /\ given[1].company # given[2].company

\* C16: the job list that search_multiple_job_boards_enhanced returns holds
\* at least one job from each of the five boards that the response reports
\* as search_platforms
C16_EveryBoardRepresented ==
    (handler = "ejs" /\ job_results # <<>>)
        => \A b \in Range(Boards) :
              \E i \in DOMAIN job_results : job_results[i].source = b

PersistenceSteps == {"index", "store", "notify"}

\* the answer of a handler whose persistence steps all succeed
AnswerWhenStored ==
    IF handler = "ejs"
    THEN Resp(200, JobSearchBodyKeys, Min(Len(matched_jobs), TopMatches))
    ELSE IF handler = "js"
    THEN Resp(200, {"matched_jobs", "total_found", "search_timestamp",
                    "next_search_scheduled"}, Min(Len(matched_jobs), TopBasicMatches))
    ELSE IF "Records" \in DOMAIN event.d
    THEN Resp(200, {"message", "results", "timestamp"}, Len(event.d.Records))
    ELSE Resp(200, {"optimization_id", "optimized_resume", "cover_letter",
                    "ats_analysis", "application_insights", "timestamp"}, 0)

\* C17: a failure while indexing, storing or notifying never turns the
\* handler's answer into an error: the handler returns statusCode 200 with
\* the results it returns when the step succeeds
C17_PersistenceFailureTolerated ==
    (handler \in {"ejs", "js", "ero"} /\ pc = "done"
     /\ failed \cap PersistenceSteps # {})
        => /\ response.statusCode = 200
           /\ response = AnswerWhenStored
           /\ handler \in {"ejs", "js"} => /\ matched_jobs # <<>>
                                          /\ Len(matched_jobs) = Len(job_results)

\* the enhanced job search has answered after all three of its persistence
\* steps failed
C17_Witness ==
    /\ handler = "ejs" /\ pc = "done"
    /\ PersistenceSteps \subseteq failed
    /\ putLog = <<>>
    /\ response.statusCode = 200

\* an event whose records are all S3 records
IsS3Batch(ev) ==
    /\ ev.shape = "dict"
    /\ "Records" \in DOMAIN ev.d
    /\ "httpMethod" \notin DOMAIN ev.d
    /\ Len(ev.d.Records) > 0
    /\ \A i \in DOMAIN ev.d.Records : "s3" \in DOMAIN ev.d.Records[i]

\* C18: the S3 handlers answer an S3 batch with statusCode 200 and exactly
\* one result per record, labelled with that record's own object key and a
\* status of processed, failed or error, whatever happened to the records
\* before it
C18_OneResultPerRecord ==
    (handler \in {"ero", "eef", "idx"} /\ pc = "done" /\ IsS3Batch(event)
     /\ "clients" \notin failed)
        => /\ response.kind = "returned"
           /\ response.statusCode = 200
           /\ Len(results) = Len(event.d.Records)
           /\ response.count = Len(event.d.Records)
           /\ \A i \in DOMAIN results :
                 /\ results[i].file = event.d.Records[i].s3
                 /\ results[i].status \in {"processed", "failed", "error"}

\* the request has reached the resume function of the handler with a JSON
\* object as its body
AtResumeFunction(path) ==
    /\ pc = "done"
    /\ event.shape = "dict"
    /\ "Records" \notin DOMAIN event.d
    /\ "httpMethod" \in DOMAIN event.d /\ event.d.httpMethod = "POST"
    /\ "path" \in DOMAIN event.d /\ event.d.path = path
    /\ body.bound /\ body.kind = "object"

NoModelCall == \A step \in StepNames : modelCalls[step] = 0

\* C19: ai_resume_analysis answers 400 when resume_text is empty, and
\* handle_resume_optimization answers 400 when resume_text or
\* job_description is empty; in both cases no model call is made
C19_ValidatedBeforeModelCall ==
    /\ (handler = "idx" /\ AtResumeFunction("/resume-analyze")
        /\ Get(body.d, "resume_text", "") = "")
           => (response.statusCode = 400 /\ NoModelCall)
    /\ (handler = "eef" /\ AtResumeFunction("/resume-optimize")
        /\ (Get(body.d, "resume_text", "") = ""
            \/ Get(body.d, "job_description", "") = ""))
           => (response.statusCode = 400 /\ NoModelCall)

\* a resume optimisation request that has a resume and no job description
\* has been answered
C19_Witness ==
    /\ handler = "eef" /\ AtResumeFunction("/resume-optimize")
    /\ Get(body.d, "resume_text", "") # ""
    /\ Get(body.d, "job_description", "") = ""
    /\ response.statusCode = 400

\* the function the specification routes a request to
RoutedTo(path, method) ==
    CASE path = "/job-search" /\ method = "POST" -> "api_job_search"
      [] path = "/resume-optimize" /\ method = "POST" -> "api_resume"
      [] path = "/market-intelligence" /\ method = "GET" -> "api_market"
      [] OTHER -> "api_status"

ApiFunctions == {"api_job_search", "api_resume", "api_market", "api_status"}

StatusResponse ==
    Resp(200, {"message", "version", "features", "endpoints", "triggers", "timestamp"}, 0)

SignedOut == ~Get(session_state, "authenticated", FALSE)

\* no Cognito token is held: access_token is None or absent, and neither
\* id_token nor refresh_token carries a token
NoTokenHeld ==
    /\ Get(session_state, "access_token", None) = None
    /\ Get(session_state, "id_token", None) = None
    /\ Get(session_state, "refresh_token", None) = None

\* show_main_app is rendered only for an authenticated session
MainOnlyWhileAuthenticated == page.shown = "main" => ~SignedOut

\* C21: in the Cognito login flow, after any sequence of sign-in attempts and
\* logouts, a session that is not authenticated holds no Cognito token
\* (access_token is None, and no id_token or refresh_token of an earlier
\* sign-in remains), and the main application is shown only while the session
\* is authenticated.
C21_NoTokenWhenSignedOut ==
    /\ SignedOut => NoTokenHeld
    /\ MainOnlyWhileAuthenticated

====
